---- MODULE Spec2Model ----
(***************************************************************************)
(* Facial-recognition attendance system: the training image store          *)
(* (training_images/), the trainer (trainer.py), the model registry        *)
(* (models/trained_model.yml, models/sklearn_model.pkl), the predictor and *)
(* the /attendance/mark handler (app.py).  Every handler is one action.    *)
(***************************************************************************)
EXTENDS Integers, Sequences, FiniteSets, Bags, TLC

\* ------------------------------------------------------------------ bounds
MaxGallery == 2
MaxLog == 1
MaxUpload == 2

\* ------------------------------------------------------- program constants
CONFIDENCE_THRESHOLD == 100
\* SKLEARN_PROBA_THRESHOLD = 0.80, kept in percent
SKLEARN_PROBA_THRESHOLD == 80
\* KNeighborsClassifier(n_neighbors=3)
n_neighbors == 3
\* len(imgs) >= 2, len(X) >= 2
MinSamples == 2

MODEL_PATH == "models/trained_model.yml"
SKLEARN_MODEL_PATH == "models/sklearn_model.pkl"
ModelPaths == {MODEL_PATH, SKLEARN_MODEL_PATH}

\* Optional values: None is the empty tuple, a present value x is <<x>>.
None == <<>>
Some(x) == <<x>>
Absent == [kind |-> "absent"]
Corrupt == [kind |-> "corrupt"]

\* The subjects of the faces table: 1 is the face id of an account, 2 of none.
FaceIds == {1, 2}

\* Uploaded photos: a decodable photo without a face, one with a face, bytes
\* that are no image, an image file cut short (it opens, decoding it raises).
RawImages == {"blank", "face", "junk", "truncated"}
\* Image.open succeeds
Opens(img) == img # "junk"
\* pil.convert("L") succeeds
Decodes(img) == img \in {"blank", "face"}
\* face_cascade.detectMultiScale: the candidate rectangles of a photo.
detectMultiScale(img) == IF img = "face" THEN <<"rect">> ELSE <<>>

\* The accounts store (users table); face ids are assigned in the database.
Users ==
  { [username |-> "admin", role |-> "admin", face_id |-> None, name |-> ""],
    [username |-> "u1", role |-> "user", face_id |-> Some(1), name |-> "Al"] }

VARIABLES
  pool,             \* db._POOL: None or the pool's idle and borrowed connections
  users,            \* the users table: the account rows
  cv2_face,         \* "absent" | "noapi" | "api": hasattr(cv2, 'face') and its LBPH factory
  training_images,  \* the gallery directory: file name -> content
  models,           \* the model registry: path -> Absent | Corrupt | fitted model
  session,          \* session.get('user'): None or the account row taken at login
  attendance,       \* attendance table: <<face_id, date>> -> [name, timestamp], or its rows
  attendance_csv,   \* attendance/<date>.csv rows
  debug_log,        \* debug_logs/predictions.log lines
  now,              \* datetime.now()
  resp,             \* the last request: route, response, calls made
  arg,              \* a function under test: its inputs
  ret,              \* a function under test: its result (None before the call)
  inflight          \* invocations in flight (train, save, close_pool): position and locals

vars == <<pool, users, cv2_face, training_images, models, session, attendance,
          attendance_csv, debug_log, now, resp, arg, ret, inflight>>

\* ---------------------------------------------------- training image store
\* get_user_by_face_id: SELECT * FROM users WHERE face_id = %s LIMIT 1
get_user_by_face_id(face_id) ==
  LET rows == {u \in Users : u.face_id = Some(face_id)}
  IN IF rows = {} THEN None ELSE Some(CHOOSE u \in rows : TRUE)

\* The name/uid fragment of a file name (already sanitized here).
name_uid(face_id) ==
  LET user == get_user_by_face_id(face_id)
  IN IF user = None THEN "" ELSE user[1].name

\* File names are sequences of characters; a run of characters that holds no
\* dot and no digit ("User", "jpg", a sanitized name) is kept as one element.
DigitChars == <<"0", "1", "2", "3", "4", "5", "6", "7", "8", "9">>
Digits == {DigitChars[k] : k \in DOMAIN DigitChars}

\* str(i) of an integer, as an f-string renders it
RECURSIVE str(_)
str(i) ==
  IF i < 0 THEN <<"-">> \o str(-i)
  ELSE IF i < 10 THEN <<DigitChars[i + 1]>>
  ELSE str(i \div 10) \o <<DigitChars[(i % 10) + 1]>>

\* s.isdigit()
isdigit(s) == s # <<>> /\ \A k \in DOMAIN s : s[k] \in Digits

\* int(s) of a string of digits
DigitValue(c) == (CHOOSE k \in DOMAIN DigitChars : DigitChars[k] = c) - 1
RECURSIVE int(_)
int(s) ==
  IF Len(s) = 1 THEN DigitValue(s[1])
  ELSE 10 * int(SubSeq(s, 1, Len(s) - 1)) + DigitValue(s[Len(s)])

\* name.split('.')
RECURSIVE split_from(_, _, _, _)
split_from(s, k, part, parts) ==
  IF k > Len(s) THEN Append(parts, part)
  ELSE IF s[k] = "." THEN split_from(s, k + 1, <<>>, Append(parts, part))
  ELSE split_from(s, k + 1, Append(part, s[k]), parts)
split(s) == split_from(s, 1, <<>>, <<>>)

\* f"User.{face_id}.{name_uid}.{n}.jpg", or f"User.{face_id}.{n}.jpg" when the
\* name fragment is empty
FileName(face_id, frag, n) ==
  <<"User", ".">> \o str(face_id) \o <<".">>
    \o (IF frag # "" THEN <<frag, ".">> ELSE <<>>) \o str(n) \o <<".", "jpg">>

\* Matching the prefix without the dot that ends the subject id.
StartsWithUserNoDot(fn, face_id) ==
  LET prefix == <<"User", ".">> \o str(face_id)
  IN Len(fn) >= Len(prefix) /\ SubSeq(fn, 1, Len(prefix)) = prefix

\* fn.startswith(f"User.{face_id}.")
StartsWithUser(fn, face_id) ==
  LET prefix == <<"User", ".">> \o str(face_id) \o <<".">>
  IN Len(fn) >= Len(prefix) /\ SubSeq(fn, 1, Len(prefix)) = prefix

\* The 200x200 equalized sample cut from a photo: the largest detected face,
\* or the whole photo when the detector finds none.
FaceSample(img) ==
  IF Len(detectMultiScale(img)) = 0
  THEN [img |-> img, region |-> "whole"]
  ELSE [img |-> img, region |-> "face"]

\* cv2.imwrite(fname, face_img): creates the file or replaces its content.
imwrite(gal, fname, content) ==
  [f \in (DOMAIN gal) \cup {fname} |-> IF f = fname THEN content ELSE gal[f]]

save_training_image_for_face(gal, face_id, img) ==
  LET existing == {fn \in DOMAIN gal : StartsWithUser(fn, face_id)}
      n == Cardinality(existing) + 1
      fname == FileName(face_id, name_uid(face_id), n)
  IN [fname |-> fname, gallery |-> imwrite(gal, fname, FaceSample(img))]

list_training_images(gal, face_id) ==
  {fn \in DOMAIN gal : StartsWithUser(fn, face_id)}

\* os.remove(path)
delete_training_image(gal, path) ==
  IF path \in DOMAIN gal
  THEN [ok |-> TRUE, gallery |-> [f \in (DOMAIN gal) \ {path} |-> gal[f]]]
  ELSE [ok |-> FALSE, gallery |-> gal]

\* eval_on_train.parse_expected_label: the name without its extension, split
\* at the dots; the second part when it is a number.
splitext(fn) ==
  LET dots == {k \in DOMAIN fn : fn[k] = "."}
      last == CHOOSE k \in dots : \A j \in dots : j <= k
  IN IF dots = {} THEN fn ELSE SubSeq(fn, 1, last - 1)
parse_expected_label(fn) ==
  LET parts == split(splitext(fn))
  IN IF Len(parts) >= 2 /\ isdigit(parts[2]) THEN Some(int(parts[2])) ELSE None

\* ------------------------------------------------------------------ trainer
\* Files whose second dot-delimited part is a decimal number.
collect_training_images(gal) ==
  {fn \in DOMAIN gal : LET parts == split(fn)
                       IN Len(parts) >= 2 /\ isdigit(parts[2])}
\* fid = int(parts[1]) of a collected file
fid(fn) == int(split(fn)[2])

\* cv2.imread(p, IMREAD_GRAYSCALE) is None for a file that is no image.
NotImage == [img |-> "junk", region |-> "none"]
imread_ok(content) == content # NotImage

\* _load_images_for_lbph / _load_images_for_sklearn: the readable samples
\* with their labels, as a bag of [label, image] (a fitted model keeps the
\* images and labels, not the file names).
load_images(gal, pairs) ==
  LET readable == {p \in pairs \cap DOMAIN gal : imread_ok(gal[p])}
      sample == [fn \in readable |-> [label |-> fid(fn), image |-> gal[fn]]]
      elems == {sample[fn] : fn \in readable}
  IN [e \in elems |-> Cardinality({fn \in readable : sample[fn] = e})]

\* Faults a backend path can meet: none, an exception while fitting, an
\* exception opening the model file for writing, an exception after the file
\* was opened and truncated.
Faults == {"none", "fit", "open", "write"}

\* A model file as a backend writes it.
Fitted(kind, samples) == [kind |-> kind, samples |-> samples]

\* A backend that fits on any sample at all.
BackendPathAnySample(kind, old, samples, fault, fewMsg, okMsg) ==
  IF BagCardinality(samples) >= 1
  THEN [file |-> Fitted(kind, samples), ok |-> TRUE, msg |-> okMsg,
        raised |-> FALSE]
  ELSE [file |-> old, ok |-> FALSE, msg |-> fewMsg, raised |-> FALSE]

\* The body of a backend's try block on the loaded samples: with at least
\* MinSamples it fits and writes the model file, else it reports too few.
\* A fault raises; one met after the file was opened leaves it unreadable.
BackendPath(kind, old, samples, fault, fewMsg, okMsg) ==
  IF BagCardinality(samples) >= MinSamples
  THEN CASE fault = "none" ->
              [file |-> Fitted(kind, samples), ok |-> TRUE, msg |-> okMsg,
               raised |-> FALSE]
         [] fault = "write" ->
              [file |-> Corrupt, ok |-> FALSE, msg |-> "", raised |-> TRUE]
         [] OTHER ->
              [file |-> old, ok |-> FALSE, msg |-> "", raised |-> TRUE]
  ELSE [file |-> old, ok |-> FALSE, msg |-> fewMsg, raised |-> FALSE]

\* trainer.py lines 99-122: the histogram path inside its try block, on the
\* samples it loaded
LbphOn(samples, old, cv, fault) ==
  CASE cv = "absent" ->
         [file |-> old, ok |-> FALSE, msg |-> "cv2.face not available",
          raised |-> FALSE]
    [] cv = "noapi" ->
         \* recognizer is None: nothing is done and lbph_msg stays empty
         [file |-> old, ok |-> FALSE, msg |-> "", raised |-> FALSE]
    [] OTHER ->
         BackendPath("lbph", old, samples, fault,
                     "Not enough images for LBPH", "LBPH model trained and saved")
LbphPath(gal, pairs, old, cv, fault) ==
  LbphOn(load_images(gal, pairs), old, cv, fault)

\* An exception that leaves the histogram path's try block unhandled.
LbphReraise(r) == r

\* except Exception as e: lbph_ok = False; lbph_msg = f"LBPH training failed: {e}"
LbphExcept(r) ==
  IF r.raised
  THEN [r EXCEPT !.ok = FALSE, !.msg = "LBPH training failed", !.raised = FALSE]
  ELSE r

\* trainer.py lines 131-141: the neighbor path inside its try block, on the
\* samples it loaded
SklearnOn(samples, old, fault) ==
  BackendPath("sklearn", old, samples, fault,
              "Not enough images for sklearn training",
              "Sklearn KNN trained and saved")
SklearnPath(gal, pairs, old, fault) ==
  SklearnOn(load_images(gal, pairs), old, fault)

\* except Exception as e: sk_ok = False; sk_msg = f"Sklearn training failed: {e}"
SklearnExcept(r) ==
  IF r.raised
  THEN [r EXCEPT !.ok = FALSE, !.msg = "Sklearn training failed", !.raised = FALSE]
  ELSE r

\* Success only when both backends succeeded.
TrainOkBoth(lbph_ok, sk_ok) == lbph_ok /\ sk_ok

\* if lbph_ok or sk_ok
TrainOk(lbph_ok, sk_ok) == lbph_ok \/ sk_ok

\* The message train_model returns.
TrainReport(ok, lbph_msg, sk_msg) ==
  IF ok
  THEN SelectSeq(<<lbph_msg, sk_msg>>, LAMBDA m : m # "")
  ELSE <<"Training failed.", "LBPH:", lbph_msg, "Sklearn:", sk_msg>>

\* train_model() from the collected files on: the result (ok, msg) with the
\* registry it leaves behind, the backend paths it entered, and whether an
\* exception left it.  Within one call both backends load the same files.
train_on(pairs, samples, mods, cv, lbphFault, skFault) ==
  LET lb == LbphExcept(LbphOn(samples, mods[MODEL_PATH], cv, lbphFault))
      sk == SklearnExcept(SklearnOn(samples, mods[SKLEARN_MODEL_PATH], skFault))
      ok == TrainOk(lb.ok, sk.ok)
  IN IF pairs = {}
     THEN [ok |-> FALSE, msg |-> <<"No training images found">>,
           models |-> mods, attempted |-> {}, raised |-> FALSE,
           lbph_msg |-> "", sk_msg |-> ""]
     ELSE IF lb.raised
     THEN [ok |-> FALSE, msg |-> <<>>,
           models |-> [mods EXCEPT ![MODEL_PATH] = lb.file],
           attempted |-> {MODEL_PATH}, raised |-> TRUE,
           lbph_msg |-> lb.msg, sk_msg |-> ""]
     ELSE [ok |-> ok, msg |-> TrainReport(ok, lb.msg, sk.msg),
           models |-> [p \in ModelPaths |->
                         IF p = MODEL_PATH THEN lb.file ELSE sk.file],
           attempted |-> {MODEL_PATH, SKLEARN_MODEL_PATH},
           raised |-> sk.raised,
           lbph_msg |-> lb.msg, sk_msg |-> sk.msg]

\* train_model()
train_model(gal, mods, cv, lbphFault, skFault) ==
  LET pairs == collect_training_images(gal)
  IN train_on(pairs, load_images(gal, pairs), mods, cv, lbphFault, skFault)

\* train_model() under each pair of faults: the gallery is read once for all.
train_model_all(gal, mods, cv) ==
  LET pairs == collect_training_images(gal)
      samples == load_images(gal, pairs)
  IN [f \in Faults \X Faults |-> train_on(pairs, samples, mods, cv, f[1], f[2])]

\* ---------------------------------------------------------------- predictor
\* A model file an in-flight train() has opened and not finished writing.
Partial == [kind |-> "partial"]

\* A load failure that leaves ensure_predictor as an exception: no result.
LoadRaises(reason) == [predictor |-> None, err |-> None]

\* return None, f"Failed to load ...: {e}" / "No trained model found ..."
LoadFailed(reason) == [predictor |-> None, err |-> Some(reason)]

\* ensure_predictor(): <<predictor, error>>, one of the two being None.
ensure_predictor(mods, cv) ==
  IF cv # "absent" /\ mods[MODEL_PATH] # Absent
  THEN IF cv = "api" /\ mods[MODEL_PATH].kind = "lbph"
       THEN [predictor |-> Some([kind |-> "lbph", model |-> mods[MODEL_PATH],
                                 proba_threshold |-> None]),
             err |-> None]
       ELSE LoadFailed("Failed to load LBPH model")
  ELSE IF mods[SKLEARN_MODEL_PATH] # Absent
       THEN IF mods[SKLEARN_MODEL_PATH].kind = "sklearn"
            THEN [predictor |-> Some([kind |-> "sklearn",
                                      model |-> mods[SKLEARN_MODEL_PATH],
                                      proba_threshold |-> Some(SKLEARN_PROBA_THRESHOLD)]),
                  err |-> None]
            ELSE LoadFailed("Failed to load sklearn model")
       ELSE LoadFailed("No trained model found")

\* The labels a fitted model knows.
Labels(model) == {e.label : e \in DOMAIN model.samples}
\* How many of a model's samples carry a label.
LabelCount(model, label) ==
  BagCardinality([e \in {d \in DOMAIN model.samples : d.label = label} |->
                    model.samples[e]])

\* Distances the histogram recognizer can report around the threshold.
LbphScores == {CONFIDENCE_THRESHOLD - 1, CONFIDENCE_THRESHOLD,
               CONFIDENCE_THRESHOLD + 1}

RECURSIVE SumOver(_, _)
SumOver(f, S) ==
  IF S = {} THEN 0
  ELSE LET x == CHOOSE y \in S : TRUE IN f[x] + SumOver(f, S \ {x})

\* What the fitted model answers for one sample: for the histogram model a
\* label with a distance, for the neighbor model the labels of the n_neighbors
\* nearest training samples (how many of them carry each label).
Oracles(p) ==
  IF p.kind = "lbph"
  THEN [label : Labels(p.model), conf : LbphScores]
  ELSE {[nearest |-> v] :
          v \in {w \in [Labels(p.model) -> 0..n_neighbors] :
                   /\ SumOver(w, Labels(p.model)) = n_neighbors
                   /\ \A l \in Labels(p.model) : w[l] <= LabelCount(p.model, l)}}

\* Votes of the nearest samples for a label.
Votes(nearest, label) == nearest[label]

\* knn.predict: the label with most votes, the smallest one on a tie.
KnnPredict(nearest) ==
  LET ls == DOMAIN nearest
      best == {l \in ls : \A m \in ls : Votes(nearest, l) >= Votes(nearest, m)}
  IN CHOOSE l \in best : \A m \in best : l <= m

\* max(predict_proba): votes of the winning label out of n_neighbors, in percent
\* times n_neighbors (so that thirds stay integers).
MaxProba(nearest) == Votes(nearest, KnnPredict(nearest)) * 100

\* threshold >= comparison on the same scale
ProbaAtLeast(proba, thresholdPercent) == proba >= thresholdPercent * n_neighbors

\* self.proba_threshold or 0.80
DefaultProbaThreshold == 80
EffectiveThreshold(proba_threshold) ==
  IF proba_threshold = None \/ proba_threshold = Some(0)
  THEN DefaultProbaThreshold
  ELSE proba_threshold[1]

\* Accepting a distance equal to the threshold.
LbphAcceptsAtThreshold(conf) == conf <= CONFIDENCE_THRESHOLD

\* conf < CONFIDENCE_THRESHOLD
LbphAccepts(conf) == conf < CONFIDENCE_THRESHOLD

\* Predictor.predict: label, score, accept flag.
Predictor_predict(p, oracle) ==
  IF p.kind = "lbph"
  THEN [label |-> oracle.label, score |-> oracle.conf,
        accepted |-> LbphAccepts(oracle.conf)]
  ELSE [label |-> KnnPredict(oracle.nearest),
        score |-> MaxProba(oracle.nearest),
        accepted |-> ProbaAtLeast(MaxProba(oracle.nearest),
                                  EffectiveThreshold(p.proba_threshold))]

\* predict_proba raises when the model holds fewer samples than n_neighbors.
PredictRaises(p) ==
  p.kind = "sklearn" /\ BagCardinality(p.model.samples) < n_neighbors

\* ----------------------------------------------------------- attendance store
\* get_face_name(face_id) or f'User{face_id}': the faces table is empty unless
\* filled in the database.
get_face_name(face_id) == None
DisplayName(label) ==
  IF get_face_name(label) = None THEN <<"User", label>> ELSE get_face_name(label)[1]

Date(t) == (t + 1) \div 2

\* INSERT ... ON DUPLICATE KEY UPDATE name, timestamp  (key: face_id, date)
attendance_upsert(att, face_id, name, t) ==
  [k \in (DOMAIN att) \cup {<<face_id, Date(t)>>} |->
     IF k = <<face_id, Date(t)>> THEN [name |-> name, timestamp |-> t] ELSE att[k]]

\* record_attendance: the table and the csv after the call, and whether it
\* raised.  fault "db_insert" raises before the commit, "csv" after it.
record_attendance(att, csv, face_id, name, t, fault) ==
  CASE fault = "db_insert" -> [attendance |-> att, csv |-> csv, raised |-> TRUE]
    [] fault = "csv" ->
         [attendance |-> attendance_upsert(att, face_id, name, t), csv |-> csv,
          raised |-> TRUE]
    [] OTHER ->
         [attendance |-> attendance_upsert(att, face_id, name, t),
          csv |-> csv \cup {<<face_id, name, t>>}, raised |-> FALSE]

\* debug_log_prediction: appends one line; a failure to write is swallowed.
debug_log_prediction(log, desc, label, score, expected, logFails) ==
  IF logFails THEN log
  ELSE Append(log, [desc |-> desc, pred |-> label, conf |-> score,
                    expected |-> expected])

\* A log write whose failure reaches the caller.
LogFailurePropagates(logFails) == logFails

\* debug_log_prediction's "except Exception: pass": no failure of the write
\* leaves the function.
LogFailureLeaves(logFails) == FALSE

\* Falling back to the whole photo when no face is found.
preprocess_or_whole(img) == Some(FaceSample(img))

\* preprocess_face_np: None when the detector finds no rectangle.
preprocess_face_np(img) ==
  IF Len(detectMultiScale(img)) = 0 THEN None ELSE Some(FaceSample(img))

\* ------------------------------------------------------------------ replies
\* jsonify({...}), status
JsonReply(status, ok, message) ==
  [kind |-> "json", status |-> status, ok |-> ok, message |-> message]
\* flash(message) or redirect(url_for(location))
Redirect(message, location) ==
  [kind |-> "redirect", status |-> 302, message |-> message, location |-> location]
\* The handlers' idiom: jsonify(...) if request.is_json else (flash(..) or redirect(..))
Reply(is_json, ok, message, location) ==
  IF is_json THEN JsonReply(200, ok, message) ELSE Redirect(message, location)

\* An exception that leaves a handler: Flask answers 500.
ServerError == [kind |-> "error", status |-> 500, message |-> "Internal Server Error"]

LoggedIn(sess) == "user" \in DOMAIN sess
IsAdmin(sess) == LoggedIn(sess) /\ sess.user.role = "admin"

\* Where a request can meet an exception of its collaborators: in
\* Predictor.predict, in get_face_name, in record_attendance before its commit,
\* in record_attendance while it appends the csv.
MarkFaults == {"none", "predict", "db_name", "db_insert", "csv"}
NoOracle == [none |-> TRUE]

\* An early return that also appends a line to the debug log.
EarlyReturnLogs(att, csv, log) ==
  [attendance |-> att, csv |-> csv,
   debug_log |-> Append(log, [desc |-> "early", pred |-> 0, conf |-> 0,
                              expected |-> None])]

\* The returns of mark_attendance that come before the prediction: they write
\* to no store.
EarlyReturn(att, csv, log) == [attendance |-> att, csv |-> csv, debug_log |-> log]

\* Marking whatever label was predicted.
AnyIdentity(label, user_face_id) == TRUE

\* not (label != user_face_id)
SameIdentity(label, user_face_id) == Some(label) = user_face_id

\* An exception of the recognition block that leaves the handler.
Unhandled(is_json) == ServerError

\* except Exception as e: the reply 'Recognition error: ' + str(e)
RecognitionError(is_json) == Reply(is_json, FALSE, "Recognition error", "mark_form")

\* The face_id of the caller's row in the users table as it is now.
stored_face_id(sess) == (CHOOSE u \in users : u.username = sess.user.username).face_id

\* session['user'].get('face_id'): the face_id of the row stored in the session.
user_face_id(sess) == sess.user.face_id

\* POST /attendance/mark.  req: is_json, img (a photo or "missing"), fault,
\* logFails, oracle.  The result: the reply, the calls made in order, the
\* prediction, and the stores as the handler leaves them.
mark_attendance(sess, mods, cv, att, csv, log, t, req) ==
  LET same == EarlyReturn(att, csv, log)
      Out(reply, calls, pred, stores) ==
        [reply |-> reply, calls |-> calls, pred |-> pred,
         attendance |-> stores.attendance, csv |-> stores.csv,
         debug_log |-> stores.debug_log]
      Err(calls, pred, stores) ==
        Out(RecognitionError(req.is_json), calls, pred, stores)
      face == preprocess_face_np(req.img)
      ep == ensure_predictor(mods, cv)
      p == ep.predictor[1]
      r == Predictor_predict(p, req.oracle)
      expected == user_face_id(sess)
      logged == [same EXCEPT !.debug_log =
                   debug_log_prediction(log, sess.user.username, r.label,
                                        r.score, expected, req.logFails)]
      rec == record_attendance(att, csv, r.label, DisplayName(r.label), t, req.fault)
      c1 == <<"pil_to_gray_np">>
      c2 == c1 \o <<"preprocess_face_np">>
      c3 == c2 \o <<"ensure_predictor">>
      c4 == c3 \o <<"predict">>
      c5 == c4 \o <<"debug_log_prediction">>
      c6 == c5 \o <<"get_face_name">>
      c7 == c6 \o <<"record_attendance">>
  IN
  IF ~LoggedIn(sess) THEN Out(JsonReply(403, FALSE, "Login required"), <<>>, None, same)
  ELSE IF req.img = "missing" THEN
    Out(IF req.is_json THEN JsonReply(400, FALSE, "No image provided")
        ELSE Redirect("", "mark_form"), <<>>, None, same)
  ELSE IF ~Opens(req.img) THEN
    Out(IF req.is_json THEN JsonReply(400, FALSE, "Invalid image")
        ELSE Redirect("Invalid image", "mark_form"), <<>>, None, same)
  ELSE IF ~Decodes(req.img) THEN Err(c1, None, same)
  ELSE IF face = None THEN
    Out(Reply(req.is_json, FALSE, "No face detected", "mark_form"), c2, None, same)
  ELSE IF ep.predictor = None THEN
    Out(Reply(req.is_json, FALSE, "Model not loaded", "mark_form"), c3, None, same)
  ELSE IF PredictRaises(p) \/ req.fault = "predict" THEN Err(c4, None, same)
  ELSE IF LogFailureLeaves(req.logFails) THEN Err(c5, Some(r), same)
  ELSE IF ~r.accepted THEN
    Out(Reply(req.is_json, FALSE, "Not confident enough to mark attendance",
              "mark_form"), c5, Some(r), logged)
  ELSE IF expected = None THEN
    Out(Reply(req.is_json, FALSE, "No face id assigned to your account",
              "mark_form"), c5, Some(r), logged)
  ELSE IF ~SameIdentity(r.label, expected) THEN
    Out(Reply(req.is_json, FALSE, "Recognized as another id", "mark_form"),
        c5, Some(r), logged)
  ELSE IF req.fault = "db_name" THEN Err(c6, Some(r), logged)
  ELSE IF rec.raised THEN
    Err(c7, Some(r), [logged EXCEPT !.attendance = rec.attendance, !.csv = rec.csv])
  ELSE
    Out(Reply(req.is_json, TRUE, "attendance recorded", "index"), c7, Some(r),
        [logged EXCEPT !.attendance = rec.attendance, !.csv = rec.csv])

\* --------------------------------------------------------- enrollment routes
\* The loop of admin_upload / admin_live_capture_upload over the uploaded
\* files: each is opened, decoded and saved, or counted as an error.
RECURSIVE SaveAll(_, _, _)
SaveAll(gal, face_id, files) ==
  IF files = <<>> THEN [gallery |-> gal, saved |-> 0, errors |-> 0, paths |-> <<>>]
  ELSE LET img == Head(files)
           ok == Opens(img) /\ Decodes(img)
           one == save_training_image_for_face(gal, face_id, img)
           rest == SaveAll(IF ok THEN one.gallery ELSE gal, face_id, Tail(files))
       IN [gallery |-> rest.gallery,
           saved |-> rest.saved + (IF ok THEN 1 ELSE 0),
           errors |-> rest.errors + (IF ok THEN 0 ELSE 1),
           paths |-> (IF ok THEN <<one.fname>> ELSE <<>>) \o rest.paths]

Uploads == UNION {[1..k -> RawImages] : k \in 1..MaxUpload}
\* Uploads of photos that show a face, alone or with a file that fails.
FaceUploads == {<<"face">>, <<"face", "face">>, <<"junk">>, <<"face", "truncated">>}

AdminOnly(route) ==
  /\ ~IsAdmin(session)
  /\ resp' = [route |-> route, reply |-> Redirect("Admin only", "index")]
  /\ UNCHANGED <<pool, users, inflight, arg, ret, cv2_face, training_images, models, session, attendance,
                 attendance_csv, debug_log, now>>

\* ------------------------------------------------------------------ actions
Init ==
  /\ cv2_face \in {"absent", "noapi", "api"}
  /\ training_images = <<>>
  /\ models = [p \in ModelPaths |-> Absent]
  /\ session = <<>>
  /\ attendance = <<>>
  /\ attendance_csv = {}
  /\ debug_log = <<>>
  /\ now = 1
  /\ resp = [route |-> "init"]
  /\ users = Users
  /\ pool = None
  /\ arg = None
  /\ ret = None
  /\ inflight = <<>>

\* POST /login with a matching password
login ==
  \E u \in users :
    /\ session' = [user |-> u]
    /\ resp' = [route |-> "login", reply |-> Redirect("Logged in", "index")]
    /\ UNCHANGED <<pool, users, inflight, arg, ret, cv2_face, training_images, models, attendance,
                   attendance_csv, debug_log, now>>

\* GET /logout
logout ==
  /\ session' = <<>>
  /\ resp' = [route |-> "logout", reply |-> Redirect("Logged out", "index")]
  /\ UNCHANGED <<pool, users, inflight, arg, ret, cv2_face, training_images, models, attendance,
                 attendance_csv, debug_log, now>>

\* POST /admin/upload with one of the given lists of files
admin_upload(uploads) ==
  \/ AdminOnly("admin_upload")
  \/ /\ IsAdmin(session)
     /\ \E face_id \in FaceIds, files \in uploads :
          /\ Cardinality(DOMAIN training_images) + Len(files) <= MaxGallery
          /\ \E r \in {SaveAll(training_images, face_id, files)} :
               /\ training_images' = r.gallery
               /\ resp' = [route |-> "admin_upload", saved |-> r.saved,
                           errors |-> r.errors,
                           entries_before |-> Cardinality(DOMAIN training_images),
                           reply |-> Redirect("Saved files", "admin_dashboard")]
     /\ UNCHANGED <<pool, users, inflight, arg, ret, cv2_face, models, session, attendance, attendance_csv,
                    debug_log, now>>

\* GET /admin/delete_image?path=...
admin_delete_image ==
  \/ AdminOnly("admin_delete_image")
  \/ /\ IsAdmin(session)
     /\ \E path \in (DOMAIN training_images)
                      \cup {FileName(1, "", MaxGallery + 1)} :
          LET r == delete_training_image(training_images, path) IN
          /\ training_images' = r.gallery
          /\ resp' = [route |-> "admin_delete_image", ok |-> r.ok,
                      reply |-> Redirect(IF r.ok THEN "Deleted" ELSE "Delete failed",
                                         "admin_gallery")]
     /\ UNCHANGED <<pool, users, inflight, arg, ret, cv2_face, models, session, attendance, attendance_csv,
                    debug_log, now>>

\* GET /admin/train
admin_train ==
  \/ AdminOnly("admin_train")
  \/ /\ IsAdmin(session)
     /\ \E all \in {train_model_all(training_images, models, cv2_face)} :
        \E f \in DOMAIN all :
          /\ models' = all[f].models
          /\ resp' = [route |-> "admin_train", ok |-> all[f].ok, msg |-> all[f].msg,
                      reply |-> IF all[f].raised THEN ServerError
                                ELSE Redirect(IF all[f].ok THEN "trained"
                                              ELSE "Training failed",
                                              "admin_dashboard")]
     /\ UNCHANGED <<pool, users, inflight, arg, ret, cv2_face, training_images, session, attendance,
                    attendance_csv, debug_log, now>>

\* The requests POST /attendance/mark can receive in the current state: a photo
\* (or none), as JSON or as a form, with what the collaborators do during it:
\* the model's answer, at most one fault, the debug log written or not.
MarkRequests ==
  LET ep == ensure_predictor(models, cv2_face)
      oracles == IF ep.predictor # None /\ ~PredictRaises(ep.predictor[1])
                 THEN {o \in Oracles(ep.predictor[1]) :
                         ep.predictor[1].kind = "lbph" =>
                           o.conf <= CONFIDENCE_THRESHOLD}
                 ELSE {NoOracle}
  IN {[is_json |-> j, img |-> i, fault |-> "none", logFails |-> FALSE,
       oracle |-> CHOOSE o \in oracles : TRUE] :
        j \in BOOLEAN, i \in (RawImages \cup {"missing"}) \ {"face"}}
     \cup
     {[is_json |-> j, img |-> "face", fault |-> f[1], logFails |-> f[2],
       oracle |-> o] :
        j \in BOOLEAN, o \in oracles,
        f \in ({<<m, FALSE>> : m \in MarkFaults} \cup {<<"none", TRUE>>})}

\* POST /attendance/mark
mark_from(requests) ==
  \E req \in requests :
    \E r \in {mark_attendance(session, models, cv2_face, attendance,
                            attendance_csv, debug_log, now, req)} :
       /\ Len(r.debug_log) <= MaxLog
       /\ attendance' = r.attendance
       /\ attendance_csv' = r.csv
       /\ debug_log' = r.debug_log
       /\ resp' = [route |-> "mark", reply |-> r.reply, calls |-> r.calls]
       /\ UNCHANGED <<pool, users, inflight, arg, ret, cv2_face, training_images, models, session, now>>

mark == mark_from(MarkRequests)

\* The enrollment side: the gallery, the trainer and the model registry.
Next ==
  \/ login
  \/ logout
  \/ admin_upload(FaceUploads)
  \/ admin_delete_image
  \/ admin_train

Spec == Init /\ [][Next]_vars

\* The training image store alone, with every kind of upload.
NextEnroll ==
  \/ login
  \/ logout
  \/ admin_upload(Uploads)
  \/ admin_delete_image

SpecEnroll == Init /\ [][NextEnroll]_vars

\* The recognition side, started from a registry that train_model() left
\* behind on a gallery the enrollment routes built.
SampleGalleries ==
  {SaveAll(SaveAll(<<>>, 1, a).gallery, 2, <<"face">>).gallery :
     a \in {<<>>, <<"face">>, <<"face", "blank">>}}

InitMark ==
  /\ cv2_face \in {"absent", "api"}
  /\ training_images \in SampleGalleries
  /\ \E lbphFault \in {"none", "write"}, skFault \in {"none", "write"} :
       models = train_model(training_images, [p \in ModelPaths |-> Absent],
                            cv2_face, lbphFault, skFault).models
  /\ session = <<>>
  /\ attendance = <<>>
  /\ attendance_csv = {}
  /\ debug_log = <<>>
  /\ now = 1
  /\ resp = [route |-> "init"]
  /\ users = Users
  /\ pool = None
  /\ arg = None
  /\ ret = None
  /\ inflight = <<>>

NextMark ==
  \/ login
  \/ logout
  \/ mark

SpecMark == InitMark /\ [][NextMark]_vars

\* Predictor.predict on its own: a predictor of either kind with any
\* probability threshold, and any answer of its model.
SampleModel(kind) ==
  Fitted(kind, load_images(SaveAll(SaveAll(<<>>, 1, <<"face", "face">>).gallery,
                                   2, <<"face", "face">>).gallery,
                           {FileName(1, "Al", 1), FileName(1, "Al", 2),
                            FileName(2, "", 1), FileName(2, "", 2)}))
ProbaThresholds ==
  {None, Some(0), Some(34), Some(50), Some(67), Some(SKLEARN_PROBA_THRESHOLD),
   Some(100)}
Predictors ==
  {[kind |-> k, model |-> SampleModel(k), proba_threshold |-> t] :
     k \in {"lbph", "sklearn"}, t \in ProbaThresholds}

InitPredict ==
  /\ cv2_face = "api"
  /\ training_images = <<>>
  /\ models = [p \in ModelPaths |-> Absent]
  /\ session = <<>>
  /\ attendance = <<>>
  /\ attendance_csv = {}
  /\ debug_log = <<>>
  /\ now = 1
  /\ resp = [route |-> "init"]
  /\ users = Users
  /\ pool = None
  /\ \E p \in Predictors : \E o \in Oracles(p) : arg = [p |-> p, oracle |-> o]
  /\ ret = None
  /\ inflight = <<>>

predict ==
  /\ ret = None
  /\ ret' = Some(Predictor_predict(arg.p, arg.oracle))
  /\ UNCHANGED <<pool, users, inflight, arg, cv2_face, training_images, models, session, attendance,
                 attendance_csv, debug_log, now, resp>>

SpecPredict == InitPredict /\ [][predict]_vars

\* Concurrent train() invocations (the server handles requests on threads):
\* each runs train_model in steps, and the gallery routes run between them.
Procs == {"a", "b"}
Idle == [pc |-> "idle", pairs |-> {}, lbph_ok |-> FALSE, lbph_msg |-> "",
         lbph |-> None, knn |-> None]

\* A lock around train_model: no other invocation is between its first read
\* and its return.
HoldsLock(p) == \A q \in Procs \ {p} : inflight[q].pc \in {"idle", "returned"}

\* train_model acquires nothing before it reads the gallery and writes the
\* model files.
NoLock(p) == TRUE

\* what a request to /admin/train needs to enter train_model
train_enter(p) == IsAdmin(session) /\ inflight[p].pc = "idle" /\ NoLock(p)

\* admin_train up to pairs = _collect_training_images()
train_begin(p) ==
  /\ train_enter(p)
  /\ LET pairs == collect_training_images(training_images)
     IN IF pairs = {}
        THEN /\ inflight' = [inflight EXCEPT ![p].pc = "returned"]
             /\ resp' = [route |-> "admin_train", ok |-> FALSE,
                         msg |-> <<"No training images found">>,
                         reply |-> Redirect("Training failed", "admin_dashboard")]
        ELSE /\ inflight' = [inflight EXCEPT ![p].pc = "lbph", ![p].pairs = pairs]
             /\ UNCHANGED resp
  /\ UNCHANGED <<pool, users, arg, ret, cv2_face, training_images, models, session, attendance,
                 attendance_csv, debug_log, now>>

\* the histogram block: reads the collected files as they are now, fits,
\* writes MODEL_PATH
train_lbph(p) ==
  /\ inflight[p].pc = "lbph"
  /\ \E lb \in {LbphExcept(LbphPath(training_images, inflight[p].pairs,
                                     models[MODEL_PATH], cv2_face, "none"))} :
        /\ models' = [models EXCEPT ![MODEL_PATH] = lb.file]
        /\ inflight' = [inflight EXCEPT ![p].pc = "sklearn",
                                        ![p].lbph_ok = lb.ok,
                                        ![p].lbph_msg = lb.msg,
                                        ![p].lbph = IF lb.ok THEN Some(lb.file)
                                                    ELSE None]
  /\ UNCHANGED <<pool, users, arg, ret, cv2_face, training_images, session, attendance,
                 attendance_csv, debug_log, now, resp>>

\* the neighbor block: reads the collected files again, fits, writes
\* SKLEARN_MODEL_PATH; then train_model returns and the handler answers
train_sklearn(p) ==
  /\ inflight[p].pc = "sklearn"
  /\ \E sk \in {SklearnExcept(SklearnPath(training_images, inflight[p].pairs,
                                           models[SKLEARN_MODEL_PATH], "none"))} :
     LET ok == TrainOk(inflight[p].lbph_ok, sk.ok) IN
        /\ models' = [models EXCEPT ![SKLEARN_MODEL_PATH] = sk.file]
        /\ inflight' = [inflight EXCEPT ![p].pc = "returned",
                                        ![p].knn = IF sk.ok THEN Some(sk.file)
                                                   ELSE None]
        /\ resp' = [route |-> "admin_train", ok |-> ok,
                    msg |-> TrainReport(ok, inflight[p].lbph_msg, sk.msg),
                    reply |-> Redirect(IF ok THEN "trained" ELSE "Training failed",
                                       "admin_dashboard")]
  /\ UNCHANGED <<pool, users, arg, ret, cv2_face, training_images, session, attendance,
                 attendance_csv, debug_log, now>>

\* The gallery the invocations start on: four samples of one subject, which
\* the admin deletes from while they run.
RaceGallery == SaveAll(<<>>, 1, <<"face", "face", "face", "face">>).gallery

InitRace ==
  /\ cv2_face = "api"
  /\ training_images = RaceGallery
  /\ models = [p \in ModelPaths |-> Absent]
  /\ session \in {<<>>} \cup {[user |-> u] : u \in Users}
  /\ attendance = <<>>
  /\ attendance_csv = {}
  /\ debug_log = <<>>
  /\ now = 1
  /\ resp = [route |-> "init"]
  /\ users = Users
  /\ pool = None
  /\ arg = None
  /\ ret = None
  /\ inflight = [p \in Procs |-> Idle]

NextRace ==
  \/ admin_delete_image
  \/ \E p \in Procs : train_begin(p)
  \/ \E p \in Procs : train_lbph(p)
  \/ \E p \in Procs : train_sklearn(p)

SpecRace == InitRace /\ [][NextRace]_vars

\* ---------------------------------------------------------------- evaluator
\* sorted(confs), by insertion
RECURSIVE Insert(_, _)
Insert(x, s) ==
  IF s = <<>> THEN <<x>>
  ELSE IF x <= Head(s) THEN <<x>> \o s
  ELSE <<Head(s)>> \o Insert(x, Tail(s))
RECURSIVE sorted(_)
sorted(s) == IF s = <<>> THEN <<>> ELSE Insert(Head(s), sorted(Tail(s)))

\* min(confs), max(confs)
min(confs) == sorted(confs)[1]
max(confs) == sorted(confs)[Len(confs)]

\* statistics.median(confs), doubled so that the mean of the two middle values
\* of an even-sized list stays an integer.
median2(confs) ==
  LET d == sorted(confs)
      n == Len(d)
  IN IF n % 2 = 1 THEN 2 * d[(n + 1) \div 2]
     ELSE d[n \div 2] + d[n \div 2 + 1]

\* What rec.model.predict does with one gallery file: a distance, or an
\* exception (None).
EvalOutcomes == {None} \cup {Some(c) : c \in LbphScores}

\* A skipped file that is counted all the same.
CountSkipped(confs) == Append(confs, CONFIDENCE_THRESHOLD)

\* "continue": the file adds nothing to confs.
SkipFile(confs) == confs

\* preprocess_img_np: None for no image, else the equalized, resized image.
preprocess_img_np(img) == IF imread_ok(img) THEN Some(img) ELSE None

\* The loop of admin_evaluate over glob('training_images/*'); the statistics do
\* not depend on the order of the visits.
RECURSIVE eval_loop(_, _, _, _)
eval_loop(gal, files, outcome, confs) ==
  IF files = {} THEN confs
  ELSE LET f == CHOOSE x \in files : TRUE
           rest == files \ {f}
       IN IF ~imread_ok(gal[f]) THEN eval_loop(gal, rest, outcome, SkipFile(confs))
          ELSE IF preprocess_img_np(gal[f]) = None
            THEN eval_loop(gal, rest, outcome, SkipFile(confs))
          ELSE IF outcome[f] = None
            THEN eval_loop(gal, rest, outcome, SkipFile(confs))
          ELSE eval_loop(gal, rest, outcome, Append(confs, outcome[f][1]))

\* What the evaluator flashes: the statistics of confs, or that there are none.
EvalReport(confs) ==
  IF confs # <<>>
  THEN [valid |-> TRUE, count |-> Len(confs), min |-> min(confs),
        median2 |-> median2(confs), max |-> max(confs)]
  ELSE [valid |-> FALSE]

\* GET /admin/evaluate
admin_evaluate ==
  \/ AdminOnly("admin_evaluate")
  \/ /\ IsAdmin(session)
     /\ LET ep == ensure_predictor(models, cv2_face) IN
        IF ep.predictor = None
        THEN resp' = [route |-> "admin_evaluate",
                      reply |-> Redirect("Model not loaded", "admin_dashboard")]
        ELSE IF ep.predictor[1].kind # "lbph"
        THEN resp' = [route |-> "admin_evaluate",
                      reply |-> Redirect("Evaluator reports LBPH confidences only",
                                         "admin_dashboard")]
        ELSE \E outcome \in [DOMAIN training_images -> EvalOutcomes] :
               resp' = [route |-> "admin_evaluate",
                        files |-> Cardinality(DOMAIN training_images),
                        stats |-> EvalReport(eval_loop(training_images,
                                     DOMAIN training_images, outcome, <<>>)),
                        reply |-> Redirect("Training image confidences",
                                           "admin_dashboard")]
     /\ UNCHANGED <<pool, users, inflight, arg, ret, cv2_face, training_images, models, session,
                    attendance, attendance_csv, debug_log, now>>

\* The galleries the evaluator runs on: three samples saved by the enrollment
\* routes, with or without a file in the directory that is no image.
EvalGalleries ==
  LET g == SaveAll(SaveAll(<<>>, 1, <<"face", "face">>).gallery, 2, <<"face">>).gallery
  IN {g, imwrite(g, <<"notes", ".", "txt">>, NotImage)}

InitEval ==
  /\ cv2_face \in {"absent", "api"}
  /\ training_images \in EvalGalleries
  /\ models = train_model(training_images, [p \in ModelPaths |-> Absent],
                          cv2_face, "none", "none").models
  /\ session = <<>>
  /\ attendance = <<>>
  /\ attendance_csv = {}
  /\ debug_log = <<>>
  /\ now = 1
  /\ resp = [route |-> "init"]
  /\ users = Users
  /\ pool = None
  /\ arg = None
  /\ ret = None
  /\ inflight = <<>>

NextEval ==
  \/ login
  \/ logout
  \/ admin_delete_image
  \/ admin_evaluate

SpecEval == InitEval /\ [][NextEval]_vars

\* ------------------------------------------------------------------- claims
Range(q) == {q[i] : i \in DOMAIN q}

\* What POST /attendance/mark does with a request in the current state.
Marked(req) ==
  mark_attendance(session, models, cv2_face, attendance, attendance_csv,
                  debug_log, now, req)

\* C1: for every request to /attendance/mark in every reachable state,
\* record_attendance is called exactly when the prediction succeeded (a face was
\* found, a model was loaded, predict returned), its accept flag is true, the
\* label equals the face_id of the caller's session, and no exception came
\* before the call; a request that does not call it leaves the attendance
\* table and the csv as they were.
C1_RecordIffAcceptedOwnId ==
  \A req \in MarkRequests : \A r \in {Marked(req)} :
    LET called == "record_attendance" \in Range(r.calls)
        predicted ==
          /\ LoggedIn(session)
          /\ req.img \in {"blank", "face"}
          /\ Len(detectMultiScale(req.img)) > 0
          /\ ensure_predictor(models, cv2_face).predictor # None
          /\ r.pred # None
    IN /\ called <=> /\ predicted
                     /\ r.pred[1].accepted
                     /\ session.user.face_id = <<r.pred[1].label>>
                     /\ req.fault # "db_name"
       /\ ~called => r.attendance = attendance /\ r.csv = attendance_csv
       /\ r.attendance # attendance =>
            <<r.pred[1].label, Date(now)>> \in DOMAIN r.attendance

\* C1 witness: a request was answered "attendance recorded" and the record of
\* the caller's own face id is in the table.
C1_Witness ==
  /\ resp.route = "mark"
  /\ resp.reply.message = "attendance recorded"
  /\ LoggedIn(session)
  /\ \E k \in DOMAIN attendance : session.user.face_id = <<k[1]>>

\* C4: for the histogram backend predict accepts exactly the distances strictly
\* below CONFIDENCE_THRESHOLD, whatever the label; it returns the model's label
\* and distance.
C4_LbphAcceptsBelowThreshold ==
  (ret # None /\ arg.p.kind = "lbph") =>
    /\ ret[1].accepted <=> arg.oracle.conf < 100
    /\ ret[1].label = arg.oracle.label
    /\ ret[1].score = arg.oracle.conf

\* C4 witness: a distance of exactly the threshold was rejected.
C4_Witness ==
  /\ ret # None
  /\ arg.p.kind = "lbph"
  /\ arg.oracle.conf = 100
  /\ ~ret[1].accepted

\* C5 as stated: for the neighbor backend the score is the highest class
\* probability and predict accepts exactly when it is at least the configured
\* probability threshold, for every configured threshold.
C5_KnnAcceptsAtConfiguredThreshold ==
  (ret # None /\ arg.p.kind = "sklearn" /\ arg.p.proba_threshold # None) =>
    LET votes == CHOOSE v \in 0..n_neighbors :
                   /\ \E l \in DOMAIN arg.oracle.nearest : arg.oracle.nearest[l] = v
                   /\ \A l \in DOMAIN arg.oracle.nearest : arg.oracle.nearest[l] <= v
    IN /\ ret[1].score = votes * 100
       /\ ret[1].accepted <=> votes * 100 >= arg.p.proba_threshold[1] * n_neighbors

\* The backend that writes a model path, and the samples train_model() would
\* load from the gallery as it is now.
BackendOf(path) == IF path = MODEL_PATH THEN "lbph" ELSE "sklearn"
GallerySamples ==
  load_images(training_images, collect_training_images(training_images))

\* The last request reached train_model() / the upload loop (it was not turned
\* away by the admin check).
TrainReturned == resp.route = "admin_train" /\ "ok" \in DOMAIN resp
UploadReturned == resp.route = "admin_upload" /\ "saved" \in DOMAIN resp

\* C2 as stated: the histogram model wins when its file is present and
\* deserializes; otherwise the neighbor model is used when its file is present
\* and loadable (also when the histogram file is present but unreadable);
\* otherwise the result is Unavailable with a reason.
C2_LoadPrecedence ==
  LET ep == ensure_predictor(models, cv2_face)
      lbphLoads == cv2_face = "api" /\ models[MODEL_PATH].kind = "lbph"
      sklearnLoads == models[SKLEARN_MODEL_PATH].kind = "sklearn"
  IN /\ lbphLoads => ep.predictor # None /\ ep.predictor[1].kind = "lbph"
     /\ (~lbphLoads /\ sklearnLoads) =>
          ep.predictor # None /\ ep.predictor[1].kind = "sklearn"
     /\ (~lbphLoads /\ ~sklearnLoads) => ep.predictor = None /\ ep.err # None

\* C3 as stated: when train() has returned, no model file holds a model of an
\* earlier train(): every fitted model on disk, and so the one the Predictor
\* loads, was fitted from the gallery as this train() read it.
C3_EveryTrainReplacesModels ==
  TrainReturned =>
    \A path \in ModelPaths :
      models[path].kind = BackendOf(path) => models[path].samples = GallerySamples

\* C9: train() returns ok exactly when a backend path fitted and wrote its
\* model in this call (enough samples, no fault, and for the histogram path
\* the LBPH API); a failure on a non-empty gallery reports the message of the
\* histogram path and the message of the neighbor path.
C9_OkIffSomePathSucceeded ==
  \A all \in {train_model_all(training_images, models, cv2_face)} :
  \A samples \in {GallerySamples} :
  \A lbphFault \in Faults, skFault \in Faults :
    LET t == all[<<lbphFault, skFault>>]
        enough == BagCardinality(samples) >= MinSamples
        lbphDone == enough /\ lbphFault = "none" /\ cv2_face = "api"
        sklearnDone == enough /\ skFault = "none"
    IN /\ t.ok <=> (lbphDone \/ sklearnDone)
       /\ lbphDone => t.models[MODEL_PATH] = Fitted("lbph", samples)
       /\ sklearnDone =>
            t.models[SKLEARN_MODEL_PATH] = Fitted("sklearn", samples)
       /\ (~t.ok /\ DOMAIN training_images # {}) =>
            /\ t.msg = <<"Training failed.", "LBPH:", t.lbph_msg,
                         "Sklearn:", t.sk_msg>>
            /\ t.sk_msg # ""
            /\ t.lbph_msg = "" => cv2_face = "noapi"

\* C9 witness: train() returned ok although only the neighbor model was
\* written while the LBPH API was there.
C9_Witness ==
  /\ TrainReturned
  /\ resp.ok
  /\ cv2_face = "api"
  /\ models[MODEL_PATH].kind # "lbph"
  /\ models[SKLEARN_MODEL_PATH] = Fitted("sklearn", GallerySamples)

\* C10: on a non-empty gallery train() enters the neighbor path whatever the
\* histogram path did: the neighbor model file and message are the same for
\* every histogram outcome, the model is written when there are enough samples
\* and the neighbor path meets no fault, and no exception leaves train().
C10_NeighborPathAlwaysAttempted ==
  \A all \in {train_model_all(training_images, models, cv2_face)} :
  \A samples \in {GallerySamples} :
  \A lbphFault \in Faults, skFault \in Faults :
    LET t == all[<<lbphFault, skFault>>]
        u == all[<<"none", skFault>>]
    IN DOMAIN training_images # {} =>
         /\ SKLEARN_MODEL_PATH \in t.attempted
         /\ ~t.raised
         /\ t.models[SKLEARN_MODEL_PATH] = u.models[SKLEARN_MODEL_PATH]
         /\ t.sk_msg = u.sk_msg
         /\ (BagCardinality(samples) >= MinSamples /\ skFault = "none") =>
              t.models[SKLEARN_MODEL_PATH] = Fitted("sklearn", samples)

\* C10 witness: the histogram path failed and the neighbor model was written
\* by the same train().
C10_Witness ==
  /\ TrainReturned
  /\ resp.ok
  /\ \E i \in DOMAIN resp.msg : resp.msg[i] = "LBPH training failed"
  /\ models[SKLEARN_MODEL_PATH] = Fitted("sklearn", GallerySamples)

\* C6: a recognition request whose photo decodes and in which the detector
\* finds no rectangle is answered "No face detected" after preprocess_face_np:
\* ensure_predictor and Predictor.predict are not called, no prediction is made
\* from the whole photo, nothing is recorded or logged.
C6_NoFaceEndsBeforePredictor ==
  \A req \in MarkRequests :
    LET r == Marked(req)
    IN (/\ LoggedIn(session)
        /\ req.img # "missing" /\ Opens(req.img) /\ Decodes(req.img)
        /\ Len(detectMultiScale(req.img)) = 0) =>
         /\ r.reply.message = "No face detected"
         /\ r.reply.kind = "json" => ~r.reply.ok
         /\ r.calls = <<"pil_to_gray_np", "preprocess_face_np">>
         /\ r.pred = None
         /\ r.attendance = attendance
         /\ r.csv = attendance_csv
         /\ r.debug_log = debug_log

\* C6 witness: a request was answered "No face detected" although a model was
\* there to load.
C6_Witness ==
  /\ resp.route = "mark"
  /\ resp.reply.message = "No face detected"
  /\ resp.calls = <<"pil_to_gray_np", "preprocess_face_np">>
  /\ ensure_predictor(models, cv2_face).predictor # None

\* With neither model file on disk ensure_predictor returns no predictor and
\* a reason, and no recognition request writes to the attendance table, the
\* attendance csv or the debug log; one that reaches the load is answered
\* "Model not loaded" without a prediction.
NoModelNoRecord ==
  (\A path \in ModelPaths : models[path] = Absent) =>
    /\ ensure_predictor(models, cv2_face) =
         [predictor |-> None, err |-> Some("No trained model found")]
    /\ \A req \in MarkRequests :
         LET r == Marked(req)
         IN /\ r.attendance = attendance
            /\ r.csv = attendance_csv
            /\ r.debug_log = debug_log
            /\ r.pred = None
            /\ (LoggedIn(session) /\ preprocess_face_np(req.img) # None
                  /\ req.img # "missing" /\ Opens(req.img) /\ Decodes(req.img)) =>
                 /\ r.reply.message = "Model not loaded"
                 /\ r.calls = <<"pil_to_gray_np", "preprocess_face_np",
                                "ensure_predictor">>

\* A recognition request changes no model file and no gallery file; without a
\* model on disk it changes no store at all.
MarkWritesNoFile ==
  resp'.route = "mark" =>
    /\ models' = models
    /\ training_images' = training_images
    /\ (\A path \in ModelPaths : models[path] = Absent) =>
         /\ attendance' = attendance
         /\ attendance_csv' = attendance_csv
         /\ debug_log' = debug_log

\* C7: when neither model file exists, loading a predictor returns no
\* predictor and a reason, and neither the load nor the recognition request
\* that triggered it writes a file: model files, gallery, debug log and
\* attendance records stay as they were.
C7_NoModelNoWrites == []NoModelNoRecord /\ [][MarkWritesNoFile]_vars

\* C7 witness: a request was answered "Model not loaded" with neither model
\* file on disk.
C7_Witness ==
  /\ resp.route = "mark"
  /\ resp.reply.message = "Model not loaded"
  /\ \A path \in ModelPaths : models[path] = Absent
  /\ debug_log = <<>>

\* C8 as stated: on the enrollment path a photo without a face is stored as
\* the resized whole image, and every decodable uploaded image adds an entry
\* to the gallery.
C8_EveryDecodableUploadAddsEntry ==
  \A face_id \in FaceIds, files \in Uploads :
    LET r == SaveAll(training_images, face_id, files)
        decodable == {i \in DOMAIN files : Opens(files[i]) /\ Decodes(files[i])}
    IN /\ r.saved = Cardinality(decodable)
       /\ \A i \in decodable :
            LET one == save_training_image_for_face(training_images, face_id,
                                                    files[i])
            IN one.gallery[one.fname] =
                 [img |-> files[i],
                  region |-> IF Len(detectMultiScale(files[i])) = 0
                             THEN "whole" ELSE "face"]
       /\ Cardinality(DOMAIN r.gallery) =
            Cardinality(DOMAIN training_images) + Cardinality(decodable)

\* The sub-messages of the two backends for too few samples.
FewLbph == "Not enough images for LBPH"
FewSklearn == "Not enough images for sklearn training"

\* C11 as stated: train() on a gallery of fewer than 2 samples (0 or 1) returns
\* ok = false with a message that reports too few samples for the histogram
\* backend and for the neighbor backend, and writes neither model file.
C11_FewSamplesReportedForBoth ==
  Cardinality(DOMAIN training_images) < MinSamples =>
    \A lbphFault \in Faults, skFault \in Faults :
      LET t == train_model(training_images, models, cv2_face, lbphFault, skFault)
      IN /\ ~t.ok
         /\ t.msg = <<"Training failed.", "LBPH:", FewLbph, "Sklearn:", FewSklearn>>
         /\ t.models = models

\* C11 amended: train() on a gallery of fewer than 2 samples returns ok =
\* false and writes neither model file.  On an empty gallery the message is
\* "No training images found"; on a gallery of one sample it reports too few
\* samples for the neighbor backend and, when the LBPH API is there, for the
\* histogram backend (without cv2.face it reports that module missing, and
\* with cv2.face but no LBPH factory the histogram part is empty).
C11_FewSamplesFail ==
  Cardinality(DOMAIN training_images) < MinSamples =>
    \A lbphFault \in Faults, skFault \in Faults :
      LET t == train_model(training_images, models, cv2_face, lbphFault, skFault)
          lbph_msg == CASE cv2_face = "api" -> FewLbph
                        [] cv2_face = "noapi" -> ""
                        [] OTHER -> "cv2.face not available"
      IN /\ ~t.ok
         /\ t.models = models
         /\ ~t.raised
         /\ t.msg = IF DOMAIN training_images = {}
                    THEN <<"No training images found">>
                    ELSE <<"Training failed.", "LBPH:", lbph_msg,
                           "Sklearn:", FewSklearn>>

\* C11 witness: train() returned failure on a gallery of one sample with the
\* LBPH API there, reporting too few samples for both backends, and no model
\* file exists.
C11_Witness ==
  /\ TrainReturned
  /\ ~resp.ok
  /\ Cardinality(DOMAIN training_images) = 1
  /\ resp.msg = <<"Training failed.", "LBPH:", FewLbph, "Sklearn:", FewSklearn>>
  /\ \A path \in ModelPaths : models[path] = Absent

\* Subject ids the bulk upload accepts (int(request.form['face_id']) takes any
\* integer), photos that decode, and name fragments of accounts.
AcceptedFaceIds == {-1, 0, 1, 2, 12}
DecodableImages == {img \in RawImages : Opens(img) /\ Decodes(img)}
NameFragments == {"", "Al", "7"}

\* C12: after save(subject, sample) returned path p, list(subject) contains p
\* and the list of no other subject does; after delete(p) succeeded,
\* list(subject) does not contain p and every other listed path, with its
\* content, is as before.
C12_StoreRoundTrip ==
  \A face_id \in AcceptedFaceIds, img \in DecodableImages :
    LET one == save_training_image_for_face(training_images, face_id, img)
        p == one.fname
        del == delete_training_image(one.gallery, p)
    IN /\ p \in list_training_images(one.gallery, face_id)
       /\ \A other \in AcceptedFaceIds \ {face_id} :
            p \notin list_training_images(one.gallery, other)
       /\ del.ok
       /\ p \notin list_training_images(del.gallery, face_id)
       /\ \A subject \in AcceptedFaceIds :
            list_training_images(del.gallery, subject) =
              list_training_images(one.gallery, subject) \ {p}
       /\ \A f \in DOMAIN del.gallery : del.gallery[f] = one.gallery[f]

\* C12 witness: a delete succeeded on a gallery built by saves, and a saved
\* path is still listed under its subject.
C12_Witness ==
  /\ resp.route = "admin_delete_image"
  /\ "ok" \in DOMAIN resp
  /\ resp.ok
  /\ \E face_id \in FaceIds : list_training_images(training_images, face_id) # {}

\* The sequence number a stored file name carries (its part before "jpg").
SeqNo(fn) == int(split(fn)[Len(split(fn)) - 1])

\* C13 as stated: a save gives the new file a sequence number above that of
\* every file of the subject, never takes the name of an existing sample,
\* makes list(subject) one longer and leaves every stored sample as it was.
C13_SaveNeverReusesName ==
  \A face_id \in FaceIds, img \in DecodableImages :
    LET one == save_training_image_for_face(training_images, face_id, img)
        existing == list_training_images(training_images, face_id)
    IN /\ one.fname \notin DOMAIN training_images
       /\ \A f \in existing : SeqNo(f) < SeqNo(one.fname)
       /\ Cardinality(list_training_images(one.gallery, face_id)) =
            Cardinality(existing) + 1
       /\ \A f \in DOMAIN training_images : one.gallery[f] = training_images[f]

\* C14 as stated: for every subject id an enrollment route accepts and every
\* name fragment, the trainer's parse of the saved file name, and the
\* evaluator's, give the subject id passed to save, and the trainer uses the
\* saved file under that subject.
C14_FaceIdRederivable ==
  /\ \A face_id \in AcceptedFaceIds, frag \in NameFragments, n \in 1..MaxGallery :
       LET fn == FileName(face_id, frag, n)
       IN /\ Len(split(fn)) >= 2 /\ isdigit(split(fn)[2])
          /\ fid(fn) = face_id
          /\ parse_expected_label(fn) = Some(face_id)
  /\ \A face_id \in AcceptedFaceIds, img \in DecodableImages :
       LET one == save_training_image_for_face(training_images, face_id, img)
       IN /\ one.fname \in collect_training_images(one.gallery)
          /\ \E e \in DOMAIN load_images(one.gallery, {one.fname}) :
               e.label = face_id

\* The states a model file can be in: absent, complete, corrupt, or partially
\* written by a train() in flight.
FileStates(path) ==
  {Absent, Corrupt, Partial, Fitted(BackendOf(path), GallerySamples)}

\* C15: for every state of the two model files ensure_predictor returns a
\* predictor and no error, or no predictor and a non-empty reason, never both
\* and never neither; the recognition request answers the second with
\* "Model not loaded" (not ok) and not with a server error.
C15_LoadNeverRaises ==
  /\ \A cv \in {"absent", "noapi", "api"},
        m \in [ModelPaths -> UNION {FileStates(path) : path \in ModelPaths}] :
       LET ep == ensure_predictor(m, cv)
       IN /\ (ep.predictor = None) # (ep.err = None)
          /\ ep.err # None => ep.err[1] # ""
          /\ ep.predictor # None =>
               m[IF ep.predictor[1].kind = "lbph" THEN MODEL_PATH
                 ELSE SKLEARN_MODEL_PATH] = ep.predictor[1].model
  /\ LET ep == ensure_predictor(models, cv2_face)
     IN /\ (ep.predictor = None) # (ep.err = None)
        /\ (ep.predictor = None /\ LoggedIn(session)) =>
             \A req \in MarkRequests :
               (/\ req.img # "missing" /\ Opens(req.img) /\ Decodes(req.img)
                /\ Len(detectMultiScale(req.img)) # 0) =>
                 \A r \in {Marked(req)} :
                   /\ r.reply.message = "Model not loaded"
                   /\ r.reply.status # ServerError.status
                   /\ r.reply.kind = "json" => ~r.reply.ok

\* C15 witness: a request was answered "Model not loaded" while a model file
\* that cannot be read is on disk.
C15_Witness ==
  /\ resp.route = "mark"
  /\ resp.reply.message = "Model not loaded"
  /\ \E path \in ModelPaths : models[path] = Corrupt
  /\ ensure_predictor(models, cv2_face).err # None

\* A content of predictions.log before a request that differs from the
\* current one.
OtherLog ==
  IF debug_log = <<>>
  THEN <<[desc |-> "upload:admin", pred |-> 2, conf |-> 0, expected |-> None]>>
  ELSE <<>>

\* C17: for every request to /attendance/mark in every reachable state, the
\* reply, the prediction (label, score, accept flag), the attendance table and
\* the csv are the same whether the write to the debug log succeeds or fails
\* and whether the log holds what it holds now or something else; the log
\* itself is only appended to.
C17_LogIsDiagnosticOnly ==
  \A req \in MarkRequests : \A r \in {Marked(req)} :
  \A fails \in BOOLEAN :
  \A o \in {mark_attendance(session, models, cv2_face, attendance,
                             attendance_csv, OtherLog, now,
                             [req EXCEPT !.logFails = fails])} :
       /\ o.reply = r.reply
       /\ o.pred = r.pred
       /\ o.calls = r.calls
       /\ o.attendance = r.attendance
       /\ o.csv = r.csv
       /\ Len(o.debug_log) \in {Len(OtherLog), Len(OtherLog) + 1}
       /\ SubSeq(o.debug_log, 1, Len(OtherLog)) = OtherLog

\* C17 witness: a request was predicted on and recorded attendance although
\* its line never reached the debug log.
C17_Witness ==
  /\ resp.route = "mark"
  /\ "debug_log_prediction" \in Range(resp.calls)
  /\ resp.reply.message = "attendance recorded"
  /\ attendance # <<>>
  /\ debug_log = <<>>

\* The training samples of a model that no other sample equals: an input equal
\* to one of them has it as its only nearest neighbor, at distance 0.
UniqueSamples(model) ==
  {e \in DOMAIN model.samples :
     /\ model.samples[e] = 1
     /\ \A d \in DOMAIN model.samples : d.image = e.image => d = e}

\* C18 as stated: when the loaded predictor is the neighbor model and holds at
\* least 2 samples, predicting on a training sample that is its own unique
\* nearest neighbor does not fail and, whatever the other neighbors are,
\* returns that sample's label with probability 1.0.
C18_ExactSampleGetsOwnLabel ==
  LET ep == ensure_predictor(models, cv2_face)
      p == ep.predictor[1]
  IN (ep.predictor # None /\ p.kind = "sklearn"
        /\ BagCardinality(p.model.samples) >= MinSamples) =>
       \A e \in UniqueSamples(p.model) :
         /\ ~PredictRaises(p)
         /\ \A o \in Oracles(p) :
              Votes(o.nearest, e.label) >= 1 =>
                /\ Predictor_predict(p, o).label = e.label
                /\ Predictor_predict(p, o).score = 100 * n_neighbors

\* The evaluator returned statistics.
EvalReturned == resp.route = "admin_evaluate" /\ "stats" \in DOMAIN resp

\* C19: whatever each gallery file does under the evaluator (unreadable,
\* predict raising, or scored), the evaluation ends with a report; the count it
\* reports is the number of files that were read and scored, and the reported
\* values satisfy min <= median <= max.
C19_EvaluatorStatistics ==
  \A outcome \in [DOMAIN training_images -> EvalOutcomes] :
    LET scored == {f \in DOMAIN training_images :
                     imread_ok(training_images[f]) /\ outcome[f] # None}
        r == EvalReport(eval_loop(training_images, DOMAIN training_images,
                                  outcome, <<>>))
    IN /\ r.valid <=> scored # {}
       /\ r.valid =>
            /\ r.count = Cardinality(scored)
            /\ 2 * r.min <= r.median2
            /\ r.median2 <= 2 * r.max
            /\ \E f \in scored : r.min = outcome[f][1]
            /\ \E f \in scored : r.max = outcome[f][1]
            /\ \A f \in scored : r.min <= outcome[f][1] /\ outcome[f][1] <= r.max

\* C19 witness: the evaluator reported statistics over fewer files than the
\* gallery holds, with distinct minimum and maximum.
C19_Witness ==
  /\ EvalReturned
  /\ resp.stats.valid
  /\ resp.stats.count >= 2
  /\ resp.stats.count < resp.files
  /\ resp.stats.min < resp.stats.max

\* The call of the recognition block at which a request meets its failure.
FailsAt(req, calls) ==
  \/ Opens(req.img) /\ ~Decodes(req.img) /\ "pil_to_gray_np" \in Range(calls)
  \/ req.fault = "predict" /\ "predict" \in Range(calls)
  \/ req.fault = "db_name" /\ "get_face_name" \in Range(calls)
  \/ req.fault \in {"db_insert", "csv"} /\ "record_attendance" \in Range(calls)

\* C20: in every reachable state with a logged-in user, every JSON request to
\* /attendance/mark, whatever its image, the model registry and the failure it
\* meets, is answered by a JSON object with the key 'ok' and status 200 or 400;
\* a request that meets a failure inside the recognition block is answered
\* ok = false with status 200, an image that does not open ok = false with
\* status 400, and ok = true is answered only when attendance was recorded.
C20_JsonMarkAlwaysAnswersJson ==
  \A req \in MarkRequests :
    (req.is_json /\ LoggedIn(session)) =>
      \A r \in {Marked(req)} :
      /\ r.reply.kind = "json"
      /\ "ok" \in DOMAIN r.reply
      /\ r.reply.status \in {200, 400}
      /\ FailsAt(req, r.calls) =>
           /\ r.reply.ok = FALSE
           /\ r.reply.status = 200
           /\ r.reply.message = "Recognition error"
      /\ (req.img = "missing" \/ ~Opens(req.img)) =>
           r.reply.ok = FALSE /\ r.reply.status = 400
      /\ r.reply.ok =>
           /\ r.reply.message = "attendance recorded"
           /\ r.calls[Len(r.calls)] = "record_attendance"

\* C20 witness: a logged-in user's JSON request got as far as the prediction,
\* met an exception there or later, and was answered with the JSON object
\* ok = false, status 200.
C20_Witness ==
  /\ resp.route = "mark"
  /\ LoggedIn(session)
  /\ resp.reply.kind = "json"
  /\ resp.reply.status = 200
  /\ resp.reply.ok = FALSE
  /\ resp.reply.message = "Recognition error"
  /\ "predict" \in Range(resp.calls)

\* An invocation between its first read of the gallery and its return.
Running(p) == inflight[p].pc \in {"lbph", "sklearn"}

\* C16: train() takes no lock.  While one invocation is between its reads and
\* its writes, an administrator's second request enters train_model as well,
\* so their reads and writes interleave; a model file on disk is always what
\* one of the invocations wrote.
C16_TrainTakesNoLock ==
  /\ \A p \in Procs : \A q \in Procs \ {p} :
       (Running(p) /\ inflight[q].pc = "idle" /\ IsAdmin(session)) => train_enter(q)
  /\ models[MODEL_PATH] # Absent =>
       \E p \in Procs : inflight[p].lbph = Some(models[MODEL_PATH])
  /\ models[SKLEARN_MODEL_PATH] # Absent =>
       \E p \in Procs : inflight[p].knn = Some(models[SKLEARN_MODEL_PATH])

\* C16 witness: both invocations have returned; the histogram model on disk is
\* the one written by one of them, the neighbor model the one written by the
\* other, and the two were fitted from different gallery contents.
C16_Witness ==
  \E p \in Procs : \E q \in Procs \ {p} :
    /\ inflight[p].pc = "returned" /\ inflight[q].pc = "returned"
    /\ inflight[p].lbph = Some(models[MODEL_PATH])
    /\ inflight[q].lbph # Some(models[MODEL_PATH])
    /\ inflight[q].knn = Some(models[SKLEARN_MODEL_PATH])
    /\ inflight[p].knn # Some(models[SKLEARN_MODEL_PATH])
    /\ models[MODEL_PATH].samples # models[SKLEARN_MODEL_PATH].samples

\* Files that something other than the enrollment routes put into the gallery
\* directory: a text file, and a readable picture that is no sample.
ForeignFiles == {<<"notes", ".", "txt">>, <<"img", ".", "5", ".", "png">>}
ForeignContent(fn) ==
  IF fn = <<"notes", ".", "txt">> THEN NotImage ELSE FaceSample("face")

\* The gallery as it is, with one more foreign file, or after one more save.
GalleryVariants ==
  {training_images}
    \cup {imwrite(training_images, fn, ForeignContent(fn)) : fn \in ForeignFiles}
    \cup {save_training_image_for_face(training_images, face_id, "face").gallery :
           face_id \in AcceptedFaceIds}

\* The name begins with the component "User" followed by a component that is a
\* decimal number.
UserDotId(fn) ==
  LET parts == split(fn)
  IN Len(parts) >= 2 /\ parts[1] = <<"User">> /\ isdigit(parts[2])

\* The files the trainer uses under a subject id.
TrainedUnder(gal, face_id) ==
  {fn \in collect_training_images(gal) : fid(fn) = face_id}

\* C21 as stated: the trainer collects a gallery file exactly when its name is
\* "User", a dot and a decimal subject id as the next component, and for every
\* subject the files it trains under that subject are the files list(subject)
\* returns.
C21_TrainerUsesListedFiles ==
  \A gal \in GalleryVariants :
    /\ \A fn \in DOMAIN gal : fn \in collect_training_images(gal) <=> UserDotId(fn)
    /\ \A face_id \in AcceptedFaceIds \cup {5} :
         TrainedUnder(gal, face_id) = list_training_images(gal, face_id)

\* ----------------------------------------------------- rectangles and crops
\* Largest image side and longest detector output that are enumerated.
MaxSide == 8
MaxFaces == 3

\* pad=0.15 of preprocess_face_np, in percent.
pad == 15

\* A rectangle is <<x, y, fw, fh>>; these lie inside an image of width w and
\* height h and have positive sides.
Rects(w, h) ==
  {<<x, y, fw, fh>> : x \in 0..(w - 1), y \in 0..(h - 1), fw \in 1..w, fh \in 1..h}

InsideImage(w, h) == {r \in Rects(w, h) : r[1] + r[3] <= w /\ r[2] + r[4] <= h}

\* key=lambda r: r[2] * r[3]
area(r) == r[3] * r[4]

\* One step of sorted(faces, key=area, reverse=True): r is placed behind every
\* rectangle already placed whose area is at least as large, so that rectangles
\* of equal area keep the order in which the detector returned them.
RECURSIVE PlaceBehindEqual(_, _)
PlaceBehindEqual(r, s) ==
  IF s = <<>> THEN <<r>>
  ELSE IF area(Head(s)) >= area(r) THEN <<Head(s)>> \o PlaceBehindEqual(r, Tail(s))
  ELSE <<r>> \o s

\* The same step of a sort that is not stable: r goes in front of rectangles of
\* equal area.
RECURSIVE PlaceBeforeEqual(_, _)
PlaceBeforeEqual(r, s) ==
  IF s = <<>> THEN <<r>>
  ELSE IF area(Head(s)) > area(r) THEN <<Head(s)>> \o PlaceBeforeEqual(r, Tail(s))
  ELSE <<r>> \o s

Place(r, s) == PlaceBehindEqual(r, s)

\* sorted(faces, key=lambda r: r[2] * r[3], reverse=True)
RECURSIVE SortedFrom(_, _)
SortedFrom(faces, placed) ==
  IF faces = <<>> THEN placed
  ELSE SortedFrom(Tail(faces), Place(Head(faces), placed))

faces_sorted(faces) == SortedFrom(faces, <<>>)

\* The padding rounded to the nearest pixel instead of truncated.
PadRounded(side) == (side * pad + 50) \div 100

\* int(fw * pad): the product is a non-negative float and int() truncates it.
PadOf(side) == (side * pad) \div 100

Max2(a, b) == IF a >= b THEN a ELSE b
Min2(a, b) == IF a <= b THEN a ELSE b

\* The slice gray_arr[y1:y2, x1:x2] that preprocess_face_np cuts out of an
\* image of width w and height h; None when the detector found nothing.
face_roi(w, h, faces) ==
  IF Len(faces) = 0 THEN None
  ELSE LET r == faces_sorted(faces)[1]
           x == r[1]
           y == r[2]
           fw == r[3]
           fh == r[4]
           pad_w == PadOf(fw)
           pad_h == PadOf(fh)
       IN Some([rect |-> r,
                x1 |-> Max2(0, x - pad_w), y1 |-> Max2(0, y - pad_h),
                x2 |-> Min2(w, x + fw + pad_w), y2 |-> Min2(h, y + fh + pad_h)])

\* The slice arr[y:y+h, x:x+w] that save_training_image_for_face cuts out; with
\* no rectangle the whole image is kept.
save_region(w, h, faces) ==
  IF Len(faces) = 0 THEN [rect |-> <<0, 0, w, h>>, x1 |-> 0, y1 |-> 0, x2 |-> w, y2 |-> h]
  ELSE LET r == faces_sorted(faces)[1]
       IN [rect |-> r, x1 |-> r[1], y1 |-> r[2], x2 |-> r[1] + r[3], y2 |-> r[2] + r[4]]

\* Rectangles from which the longer detector outputs are drawn: two pairs of
\* equal area and one larger rectangle.
SampleRects == {<<0, 0, 1, 2>>, <<0, 0, 2, 1>>, <<1, 1, 2, 2>>, <<0, 1, 1, 1>>, <<1, 0, 1, 1>>}

RECURSIVE SeqsOf(_, _)
SeqsOf(S, n) ==
  IF n = 0 THEN {<<>>}
  ELSE {<<x>> \o s : x \in S, s \in SeqsOf(S, n - 1)}

\* What the detector may return for an image of width w and height h.
DetectorOutputs(w, h) ==
  {<<>>} \cup {<<r>> : r \in InsideImage(w, h)}
    \cup (IF w = MaxSide /\ h = MaxSide
          THEN UNION {SeqsOf(SampleRects, n) : n \in 2..MaxFaces}
          ELSE {})

InitCrop ==
  /\ cv2_face = "api"
  /\ training_images = <<>>
  /\ models = [p \in ModelPaths |-> Absent]
  /\ session = <<>>
  /\ attendance = <<>>
  /\ attendance_csv = {}
  /\ debug_log = <<>>
  /\ now = 1
  /\ resp = [route |-> "init"]
  /\ users = Users
  /\ pool = None
  /\ \E w \in 1..MaxSide : \E h \in 1..MaxSide : \E faces \in DetectorOutputs(w, h) :
       arg = [w |-> w, h |-> h, faces |-> faces]
  /\ ret = None
  /\ inflight = <<>>

\* Both paths are applied to the same image and detector output.
crop ==
  /\ ret = None
  /\ ret' = Some([recognition |-> face_roi(arg.w, arg.h, arg.faces),
                  enrollment |-> save_region(arg.w, arg.h, arg.faces)])
  /\ UNCHANGED <<pool, users, inflight, arg, cv2_face, training_images, models, session, attendance,
                 attendance_csv, debug_log, now, resp>>

SpecCrop == InitCrop /\ [][crop]_vars

\* The first rectangle of maximal area in detector order.
FirstLargest(faces) ==
  LET i == CHOOSE k \in 1..Len(faces) :
             /\ \A j \in 1..Len(faces) : area(faces[j]) <= area(faces[k])
             /\ \A j \in 1..(k - 1) : area(faces[j]) < area(faces[k])
  IN faces[i]

Cropped == ret # None /\ Len(arg.faces) > 0

\* C22: whenever the detector returned rectangles, the recognition path and the
\* enrollment path both take a rectangle of maximal area, and among rectangles
\* of equal maximal area the one the detector returned first.
C22_BothPathsTakeFirstLargest ==
  Cropped =>
    /\ ret[1].recognition[1].rect = FirstLargest(arg.faces)
    /\ ret[1].enrollment.rect = FirstLargest(arg.faces)

\* Two rectangles of the same maximal area were returned, the later one differs
\* from the first, and both paths have made their choice.
C22_Witness ==
  /\ Cropped
  /\ \E i, j \in 1..Len(arg.faces) :
       /\ i < j
       /\ arg.faces[i] # arg.faces[j]
       /\ area(arg.faces[i]) = area(arg.faces[j])
       /\ arg.faces[i] = FirstLargest(arg.faces)

\* C23: for every image and every detected rectangle inside it, the crop of the
\* recognition path is the rectangle widened by floor(15% of fw) and
\* floor(15% of fh) on each side and clamped to the image; it satisfies
\* 0 <= x1 <= x, x + fw <= x2 <= w, 0 <= y1 <= y, y + fh <= y2 <= h, is not empty
\* and contains the rectangle.
C23_CropContainsRectangle ==
  (Cropped /\ \A i \in 1..Len(arg.faces) : arg.faces[i] \in InsideImage(arg.w, arg.h)) =>
    LET c == ret[1].recognition[1]
        x == c.rect[1]
        y == c.rect[2]
        fw == c.rect[3]
        fh == c.rect[4]
    IN /\ c.x1 = Max2(0, x - (15 * fw) \div 100)
       /\ c.y1 = Max2(0, y - (15 * fh) \div 100)
       /\ c.x2 = Min2(arg.w, x + fw + (15 * fw) \div 100)
       /\ c.y2 = Min2(arg.h, y + fh + (15 * fh) \div 100)
       /\ 0 <= c.x1 /\ c.x1 <= x
       /\ x + fw <= c.x2 /\ c.x2 <= arg.w
       /\ 0 <= c.y1 /\ c.y1 <= y
       /\ y + fh <= c.y2 /\ c.y2 <= arg.h
       /\ c.x1 < c.x2 /\ c.y1 < c.y2

\* A rectangle wide enough to get a padding of one pixel that is clamped at the
\* right edge of the image but not at the left one.
C23_Witness ==
  /\ Cropped
  /\ LET c == ret[1].recognition[1]
     IN /\ c.rect[3] = 7
        /\ c.x1 < c.rect[1]
        /\ c.x2 = arg.w
        /\ c.x2 < c.rect[1] + c.rect[3] + 1

\* ------------------------------------------------------------- sanitizers
\* Longest display name that is enumerated.
MaxName == 3

\* Characters a display name is built from: ASCII letters and a digit, the
\* underscore, white space, a dot, a path separator and a letter outside ASCII.
AsciiWord == {"a", "Z", "7", "_"}
Whitespace == {" ", "\t"}
Chars == AsciiWord \cup Whitespace \cup {".", "/", "e-acute"}

\* ch.isalnum(): true for letters and digits of any script.
isalnum(ch) == ch \in {"a", "Z", "7", "e-acute"}

\* s.strip(): white space is removed from both ends.
RECURSIVE lstrip(_)
lstrip(s) == IF s # <<>> /\ Head(s) \in Whitespace THEN lstrip(Tail(s)) ELSE s

RECURSIVE rstrip(_)
rstrip(s) ==
  IF s # <<>> /\ s[Len(s)] \in Whitespace THEN rstrip(SubSeq(s, 1, Len(s) - 1)) ELSE s

strip(s) == rstrip(lstrip(s))

\* s.replace(" ", "_")
replace_space(s) == [i \in 1..Len(s) |-> IF s[i] = " " THEN "_" ELSE s[i]]

\* re.sub(r"[^A-Za-z0-9_]", "", s)
re_sub_non_word(s) == SelectSeq(s, LAMBDA ch : ch \in AsciiWord)

\* ''.join(ch for ch in s if ch.isalnum() or ch == '_')
join_alnum(s) == SelectSeq(s, LAMBDA ch : isalnum(ch) \/ ch = "_")

\* app._sanitize_for_filename
sanitize_for_filename(s) ==
  IF s = <<>> THEN <<>> ELSE re_sub_non_word(replace_space(strip(s)))

\* utils.sanitize_filename_component
sanitize_filename_component(s) ==
  IF s = <<>> THEN <<>> ELSE join_alnum(replace_space(strip(s)))

InitSanitize ==
  /\ cv2_face = "api"
  /\ training_images = <<>>
  /\ models = [p \in ModelPaths |-> Absent]
  /\ session = <<>>
  /\ attendance = <<>>
  /\ attendance_csv = {}
  /\ debug_log = <<>>
  /\ now = 1
  /\ resp = [route |-> "init"]
  /\ users = Users
  /\ pool = None
  /\ \E n \in 0..MaxName : \E s \in SeqsOf(Chars, n) : arg = s
  /\ ret = None
  /\ inflight = <<>>

\* Both sanitizers are applied to the same string.
sanitize ==
  /\ ret = None
  /\ ret' = Some([app |-> sanitize_for_filename(arg),
                  utils |-> sanitize_filename_component(arg)])
  /\ UNCHANGED <<pool, users, inflight, arg, cv2_face, training_images, models, session, attendance,
                 attendance_csv, debug_log, now, resp>>

SpecSanitize == InitSanitize /\ [][sanitize]_vars

\* The input stripped, spaces replaced by underscore, and every character
\* outside [A-Za-z0-9_] removed.
SanitizedAsStated(s) ==
  SelectSeq(replace_space(strip(s)), LAMBDA ch : ch \in {"a", "Z", "7", "_"})

\* C24 as stated: for every input both sanitizers return the input stripped,
\* with spaces replaced by underscore and every character outside [A-Za-z0-9_]
\* removed; the result holds only ASCII letters, digits and underscore, and
\* sanitizing it again leaves it unchanged.
C24_BothSanitizersAsciiAndIdempotent ==
  ret # None =>
    /\ ret[1].app = SanitizedAsStated(arg)
    /\ ret[1].utils = SanitizedAsStated(arg)
    /\ \A i \in 1..Len(ret[1].app) : ret[1].app[i] \in {"a", "Z", "7", "_"}
    /\ \A i \in 1..Len(ret[1].utils) : ret[1].utils[i] \in {"a", "Z", "7", "_"}
    /\ sanitize_for_filename(ret[1].app) = ret[1].app
    /\ sanitize_filename_component(ret[1].utils) = ret[1].utils

\* ----------------------------------------------------------- live capture
\* POST /admin/live_capture_upload with a JSON body {face_id, images}: every
\* image is decoded and saved inside its own try block, then train_model() runs
\* on the gallery as the saves left it, and the answer is built from the counts.
\* What goes wrong in the LBPH part and in the sklearn part of the training
\* that a capture request runs.
CaptureFaults == {<<"none", "none">>, <<"fit", "none">>, <<"none", "write">>, <<"open", "fit">>}

\* The image lists of a capture request: frames with a face, a frame without
\* one, and frames that do not decode.
CaptureImages ==
  {<<"face">>, <<"blank", "face">>, <<"junk", "face">>, <<"truncated">>}

admin_live_capture_upload ==
  \/ /\ ~IsAdmin(session)
     /\ resp' = [route |-> "admin_live_capture_upload",
                 reply |-> JsonReply(403, FALSE, "Admin only")]
     /\ UNCHANGED <<pool, users, inflight, arg, ret, cv2_face, training_images, models, session,
                    attendance, attendance_csv, debug_log, now>>
  \/ /\ IsAdmin(session)
     /\ \E face_id \in FaceIds, images \in CaptureImages :
        \E r \in {SaveAll(training_images, face_id, images)} :
          /\ Cardinality(DOMAIN r.gallery) <= MaxGallery
          /\ \E all \in {train_model_all(r.gallery, models, cv2_face)} :
             \E f \in CaptureFaults :
               /\ training_images' = r.gallery
               /\ models' = all[f].models
               /\ resp' = [route |-> "admin_live_capture_upload",
                           images |-> images, saved |-> r.saved, errors |-> r.errors,
                           paths |-> r.paths, trained_on |-> r.gallery,
                           train_ok |-> all[f].ok, train_msg |-> all[f].msg,
                           reply |-> IF all[f].raised THEN ServerError
                                     ELSE JsonReply(200, TRUE, "")]
     /\ UNCHANGED <<pool, users, inflight, arg, ret, cv2_face, session, attendance, attendance_csv,
                    debug_log, now>>

\* The session is the one a login left, or none.
InitCapture ==
  /\ cv2_face \in {"absent", "noapi", "api"}
  /\ training_images = <<>>
  /\ models = [p \in ModelPaths |-> Absent]
  /\ session \in {<<>>} \cup {[user |-> u] : u \in Users}
  /\ attendance = <<>>
  /\ attendance_csv = {}
  /\ debug_log = <<>>
  /\ now = 1
  /\ resp = [route |-> "init"]
  /\ users = Users
  /\ pool = None
  /\ arg = None
  /\ ret = None
  /\ inflight = <<>>

NextCapture ==
  \/ admin_live_capture_upload
  \/ admin_delete_image

SpecCapture == InitCapture /\ [][NextCapture]_vars

CaptureReturned == resp.route = "admin_live_capture_upload" /\ "saved" \in DOMAIN resp

\* The images of the request that decode.
DecodableCount(images) ==
  Cardinality({i \in 1..Len(images) : Opens(images[i]) /\ Decodes(images[i])})

\* C25 as stated: a live-capture upload by an admin trains once, on the gallery
\* left by all its saves, and that gallery holds one file for every image
\* counted in saved; the answer has ok = true, saved is the number of images
\* stored, errors has one entry per image that failed, whatever the training
\* outcome.
C25_CaptureSavesThenTrains ==
  CaptureReturned =>
    /\ resp.reply = JsonReply(200, TRUE, "")
    /\ resp.trained_on = training_images
    /\ \A i \in 1..Len(resp.paths) : resp.paths[i] \in DOMAIN resp.trained_on
    /\ Cardinality(Range(resp.paths)) = resp.saved
    /\ resp.saved = DecodableCount(resp.images)
    /\ resp.errors = Len(resp.images) - DecodableCount(resp.images)

\* ------------------------------------------------------- concurrent saves
\* Two upload requests of one file each, handled by two threads of the server.
SaveIdle == [pc |-> "idle", face_id |-> 0, img |-> "", existing |-> {}, fname |-> <<>>]

\* A lock around save_training_image_for_face: no other save is between its
\* listing of the directory and its write.
HoldsSaveLock(p) == \A q \in Procs \ {p} : inflight[q].pc # "listed"

\* save_training_image_for_face acquires nothing before it lists the directory.
NoSaveLock(p) == TRUE

\* what a save needs to start
save_enter(p) == IsAdmin(session) /\ inflight[p].pc = "idle" /\ NoSaveLock(p)

\* save_training_image_for_face up to the computation of the file name:
\* existing = [fn for fn in os.listdir(..) if fn.startswith(..)], n = len + 1
save_list(p) ==
  /\ save_enter(p)
  /\ Cardinality(DOMAIN training_images) < MaxGallery
  /\ \E face_id \in FaceIds, img \in {"blank", "face"} :
       inflight' = [inflight EXCEPT ![p] =
         [pc |-> "listed", face_id |-> face_id, img |-> img,
          existing |-> {fn \in DOMAIN training_images : StartsWithUser(fn, face_id)},
          fname |-> save_training_image_for_face(training_images, face_id, img).fname]]
  /\ UNCHANGED <<pool, users, arg, ret, cv2_face, training_images, models, session, attendance,
                 attendance_csv, debug_log, now, resp>>

\* cv2.imwrite(fname, roi), and the request answers
save_write(p) ==
  /\ inflight[p].pc = "listed"
  /\ training_images' = imwrite(training_images, inflight[p].fname,
                                FaceSample(inflight[p].img))
  /\ inflight' = [inflight EXCEPT ![p].pc = "written"]
  /\ resp' = [route |-> "admin_upload", saved |-> 1, errors |-> 0,
              entries_before |-> Cardinality(DOMAIN training_images),
              reply |-> Redirect("Saved files", "admin_dashboard")]
  /\ UNCHANGED <<pool, users, arg, ret, cv2_face, models, session, attendance, attendance_csv,
                 debug_log, now>>

\* The galleries the two requests start on: empty, or one sample of subject 1.
InitSaveRace ==
  /\ cv2_face = "api"
  /\ training_images \in {<<>>, SaveAll(<<>>, 1, <<"face">>).gallery}
  /\ models = [p \in ModelPaths |-> Absent]
  /\ session \in {[user |-> u] : u \in {v \in Users : v.role = "admin"}}
  /\ attendance = <<>>
  /\ attendance_csv = {}
  /\ debug_log = <<>>
  /\ now = 1
  /\ resp = [route |-> "init"]
  /\ users = Users
  /\ pool = None
  /\ arg = training_images
  /\ ret = None
  /\ inflight = [p \in Procs |-> SaveIdle]

NextSaveRace ==
  \/ \E p \in Procs : save_list(p)
  \/ \E p \in Procs : save_write(p)

SpecSaveRace == InitSaveRace /\ [][NextSaveRace]_vars

\* Both saves are past their listing, for the same subject and with the same
\* set of existing files.
SameListing(p, q) ==
  /\ inflight[p].pc \in {"listed", "written"}
  /\ inflight[q].pc \in {"listed", "written"}
  /\ inflight[p].face_id = inflight[q].face_id
  /\ inflight[p].existing = inflight[q].existing

\* C26: a save takes no lock, so while one save is between its listing and its
\* write a second one lists too; two saves for one subject that counted the
\* same existing files computed the same file name, and once both have written
\* the gallery has grown by that one file and holds the sample written last.
C26_ConcurrentSavesCollide ==
  \A p \in Procs : \A q \in Procs \ {p} :
    /\ (inflight[p].pc = "listed" /\ inflight[q].pc = "idle") => save_enter(q)
    /\ SameListing(p, q) => inflight[p].fname = inflight[q].fname
    /\ (SameListing(p, q) /\ inflight[p].pc = "written" /\ inflight[q].pc = "written") =>
         /\ DOMAIN training_images = (DOMAIN arg) \cup {inflight[p].fname}
         /\ Cardinality(DOMAIN training_images) = Cardinality(DOMAIN arg) + 1

\* Two saves of different photos for the same subject counted the same files;
\* both have written and answered, the gallery has one file more than at the
\* start, and that file holds only one of the two samples.
C26_Witness ==
  \E p \in Procs : \E q \in Procs \ {p} :
    /\ SameListing(p, q)
    /\ inflight[p].pc = "written" /\ inflight[q].pc = "written"
    /\ inflight[p].img # inflight[q].img
    /\ inflight[p].fname = inflight[q].fname
    /\ Cardinality(DOMAIN training_images) = Cardinality(DOMAIN arg) + 1
    /\ training_images[inflight[p].fname] = FaceSample(inflight[p].img)
    /\ training_images[inflight[p].fname] # FaceSample(inflight[q].img)

\* ------------------------------------------------------- attendance rows
\* The last instant of the clock that is enumerated; two instants make a date.
MaxClock == 3

\* The attendance table as rows <id, face_id, name, timestamp, date> in the
\* order of insertion.  The rows a new (face_id, date) collides with under
\* UNIQUE KEY uniq_face_date (face_id, date).
uniq_face_date(rows, face_id, date) ==
  {i \in 1..Len(rows) : rows[i].face_id = face_id /\ rows[i].date = date}

\* A table without the unique key: nothing collides.
no_unique_key(rows, face_id, date) == {}

duplicate_key(rows, face_id, date) == uniq_face_date(rows, face_id, date)

\* AUTO_INCREMENT
next_id(rows) == IF rows = <<>> THEN 1 ELSE rows[Len(rows)].id + 1

\* INSERT INTO attendance ... ON DUPLICATE KEY UPDATE name=VALUES(name),
\* timestamp=VALUES(timestamp)
insert_on_duplicate_key_update(rows, face_id, name, ts, date) ==
  LET dup == duplicate_key(rows, face_id, date)
  IN IF dup = {}
     THEN Append(rows, [id |-> next_id(rows), face_id |-> face_id, name |-> name,
                        timestamp |-> ts, date |-> date])
     ELSE [i \in 1..Len(rows) |->
             IF i \in dup THEN [rows[i] EXCEPT !.name = name, !.timestamp = ts]
             ELSE rows[i]]

\* Names the faces table may give a subject at the time of a recording.
FaceNames == {"Al", "Alice"}

\* record_attendance(face_id, name) returning normally: the row is inserted or
\* updated and committed, then a line is appended to the csv of the date.
record_attendance_rows ==
  /\ \E face_id \in FaceIds, name \in FaceNames :
       /\ attendance' = insert_on_duplicate_key_update(attendance, face_id, name,
                                                       now, Date(now))
       /\ attendance_csv' = attendance_csv \cup {<<face_id, name, now>>}
       /\ resp' = [route |-> "record_attendance", face_id |-> face_id, name |-> name,
                   timestamp |-> now, date |-> Date(now)]
  /\ UNCHANGED <<pool, users, inflight, arg, ret, cv2_face, training_images, models, session,
                 debug_log, now>>

\* datetime.now() moves on between recordings.
clock ==
  /\ now < MaxClock
  /\ now' = now + 1
  /\ UNCHANGED <<pool, users, inflight, arg, ret, cv2_face, training_images, models, session,
                 attendance, attendance_csv, debug_log, resp>>

InitAttendance ==
  /\ cv2_face = "api"
  /\ training_images = <<>>
  /\ models = [p \in ModelPaths |-> Absent]
  /\ session = <<>>
  /\ attendance = <<>>
  /\ attendance_csv = {}
  /\ debug_log = <<>>
  /\ now = 1
  /\ resp = [route |-> "init"]
  /\ users = Users
  /\ pool = None
  /\ arg = None
  /\ ret = None
  /\ inflight = <<>>

NextAttendance ==
  \/ record_attendance_rows
  \/ clock

SpecAttendance == InitAttendance /\ [][NextAttendance]_vars

\* No two rows of the table have the same subject id and date.
OneRowPerFaceAndDate ==
  \A i, j \in 1..Len(attendance) :
    (attendance[i].face_id = attendance[j].face_id
       /\ attendance[i].date = attendance[j].date) => i = j

\* A recording either appends one row for a (subject, date) that had none, or
\* changes name and timestamp of the one row that has them; every other row
\* stays as it was.
RecordingUpserts ==
  attendance' # attendance =>
    LET key == {i \in 1..Len(attendance) :
                  attendance[i].face_id = resp'.face_id /\ attendance[i].date = resp'.date}
    IN IF key = {}
       THEN /\ Len(attendance') = Len(attendance) + 1
            /\ SubSeq(attendance', 1, Len(attendance)) = attendance
       ELSE /\ Len(attendance') = Len(attendance)
            /\ \A i \in 1..Len(attendance) :
                 IF i \in key
                 THEN /\ attendance'[i].id = attendance[i].id
                      /\ attendance'[i].name = resp'.name
                      /\ attendance'[i].timestamp = resp'.timestamp
                 ELSE attendance'[i] = attendance[i]

\* C27: after any sequence of successful recordings the table holds at most one
\* row per (subject id, date); a repeated recording for the same subject and
\* date updates name and timestamp of the existing row instead of adding one,
\* and rows of other subjects or dates are left unchanged.
C27_OneRecordPerSubjectAndDate == []OneRowPerFaceAndDate /\ [][RecordingUpserts]_vars

\* A subject was recorded twice on one date under different names and once on
\* another date, and another subject on the first date: three rows, the first
\* one carrying the later name and timestamp.
C27_Witness ==
  /\ Len(attendance) = 3
  /\ attendance[1].face_id = 1 /\ attendance[1].date = 1
  /\ attendance[1].timestamp = 2 /\ attendance[1].name = "Alice"
  /\ <<1, "Al", 1>> \in attendance_csv
  /\ attendance[2].face_id = 2 /\ attendance[2].date = 1
  /\ attendance[3].face_id = 1 /\ attendance[3].date = 2

\* ------------------------------------------------- sessions and accounts
\* update_user_face_id(user_id, face_id): UPDATE users SET face_id = .. WHERE
\* id = ..; the sessions that hold a copy of the row are not touched.
update_user_face_id ==
  /\ \E u \in users, face_id \in FaceIds :
       users' = (users \ {u}) \cup {[u EXCEPT !.face_id = Some(face_id)]}
  /\ resp' = [route |-> "update_user_face_id"]
  /\ UNCHANGED <<pool, inflight, arg, ret, cv2_face, training_images, models, session,
                 attendance, attendance_csv, debug_log, now>>

\* The gallery holds samples of both subjects and both models are trained.
SessionGallery == SaveAll(SaveAll(<<>>, 1, <<"face", "blank">>).gallery, 2, <<"face">>).gallery

InitSession ==
  /\ cv2_face = "api"
  /\ training_images = SessionGallery
  /\ models = train_model(training_images, [p \in ModelPaths |-> Absent],
                          cv2_face, "none", "none").models
  /\ session = <<>>
  /\ attendance = <<>>
  /\ attendance_csv = {}
  /\ debug_log = <<>>
  /\ now = 1
  /\ resp = [route |-> "init"]
  /\ users = Users
  /\ pool = None
  /\ arg = None
  /\ ret = None
  /\ inflight = <<>>

\* Requests with a photo of a face, during which nothing fails.
SessionRequests ==
  {req \in MarkRequests : req.img = "face" /\ req.fault = "none" /\ ~req.logFails}

NextSession ==
  \/ login
  \/ logout
  \/ update_user_face_id
  \/ mark_from(SessionRequests)

SpecSession == InitSession /\ [][NextSession]_vars

\* Every recognition request compares the predicted label against the face_id
\* held in the session, whatever the users table holds now: it records
\* attendance exactly for an accepted prediction of that id, and for that id.
SessionIdCompared ==
  LoggedIn(session) =>
    \A req \in SessionRequests : \A r \in {Marked(req)} :
      LET called == "record_attendance" \in Range(r.calls)
      IN /\ called => session.user.face_id = Some(r.pred[1].label)
         /\ r.attendance # attendance =>
              /\ called
              /\ DOMAIN r.attendance =
                   (DOMAIN attendance) \cup {<<session.user.face_id[1], Date(now)>>}
         /\ (r.pred # None /\ r.pred[1].accepted
               /\ session.user.face_id = Some(r.pred[1].label))
              => called

\* A login stores the account row as the users table holds it at that moment.
LoginCopiesRow ==
  (session' # session /\ LoggedIn(session')) => session'.user \in users

\* C28: the subject id a recognition request compares the predicted label
\* against, and records attendance for, is the face_id captured in the session
\* at login; a later change of the account's face_id in the users table has no
\* effect on it until the user logs in again.
C28_SessionFaceIdIsCompared == []SessionIdCompared /\ [][LoginCopiesRow]_vars

\* The account's face_id was changed from 1 to 2 after login; a request of the
\* still logged-in user was answered "attendance recorded" and the record is
\* for subject 1, none for subject 2.
C28_Witness ==
  /\ LoggedIn(session)
  /\ session.user.face_id = Some(1)
  /\ stored_face_id(session) = Some(2)
  /\ resp.route = "mark"
  /\ resp.reply.message = "attendance recorded"
  /\ <<1, Date(now)>> \in DOMAIN attendance
  /\ <<2, Date(now)>> \notin DOMAIN attendance

\* ------------------------------------------------------ attendance history
\* POST /signup: create_user(username, password, role, None, name, ...); the
\* new account has no face_id.  The insert fails when the username is taken.
signup ==
  /\ \E role \in {"user", "admin"} :
       LET row == [username |-> "u2", role |-> role, face_id |-> None, name |-> "Bo"]
       IN IF \E u \in users : u.username = row.username
          THEN /\ UNCHANGED users
               /\ resp' = [route |-> "signup", reply |-> Redirect("Signup failed", "signup")]
          ELSE /\ users' = users \cup {row}
               /\ resp' = [route |-> "signup", reply |-> Redirect("Account created", "login")]
  /\ UNCHANGED <<pool, inflight, arg, ret, cv2_face, training_images, models, session,
                 attendance, attendance_csv, debug_log, now>>

\* read_attendance(): SELECT * FROM attendance
read_attendance(att) ==
  {[face_id |-> k[1], date |-> k[2], name |-> att[k].name,
    timestamp |-> att[k].timestamp] : k \in DOMAIN att}

\* "if user_face:" is true for a face_id that is neither None nor 0.
Truthy(face_id) == face_id # None /\ face_id # Some(0)

\* The rows attendance_history hands to the page: filtered by the session's
\* face_id when that is truthy, all rows otherwise.
history_rows(sess, att) ==
  IF Truthy(sess.user.face_id)
  THEN {r \in read_attendance(att) : Some(r.face_id) = sess.user.face_id}
  ELSE read_attendance(att)

\* GET /attendance/history
attendance_history ==
  /\ IF ~LoggedIn(session)
     THEN resp' = [route |-> "attendance_history",
                   reply |-> Redirect("Login required", "login")]
     ELSE resp' = [route |-> "attendance_history",
                   rows |-> history_rows(session, attendance),
                   reply |-> [kind |-> "page", status |-> 200, message |-> "My attendance"]]
  /\ UNCHANGED <<pool, users, inflight, arg, ret, cv2_face, training_images, models, session,
                 attendance, attendance_csv, debug_log, now>>

NextHistory ==
  \/ signup
  \/ login
  \/ logout
  \/ mark_from(SessionRequests)
  \/ attendance_history

SpecHistory == InitSession /\ [][NextHistory]_vars

HistoryReturned == resp.route = "attendance_history" /\ "rows" \in DOMAIN resp

\* C29 as stated: the history page shows a logged-in user only records whose
\* subject id is that user's own face_id; for every session, also one whose
\* account has no face_id, no record of another subject is returned.
C29_HistoryShowsOwnRecordsOnly ==
  HistoryReturned =>
    \A r \in resp.rows : Some(r.face_id) = session.user.face_id

\* -------------------------------------------------------- connection pool
\* pool_size of the pool that _init_pool creates (DB_POOL_SIZE).
DB_POOL_SIZE == 5

\* A pool holds idle connections in its queue; the others are borrowed by
\* requests.  MySQLConnectionPool fills the queue when it is constructed.
NewPool == Some([idle |-> DB_POOL_SIZE, borrowed |-> 0])

\* The thread that runs close_pool: where it is.
PoolIdle == [pc |-> "idle"]

\* get_conn() of a request: a pooled connection when the pool exists and hands
\* one out, otherwise (no pool, pool exhausted, get_connection raised) a direct
\* connection.
get_conn ==
  /\ \E raises \in BOOLEAN :
       IF pool # None /\ pool[1].idle > 0 /\ ~raises
       THEN /\ pool' = Some([idle |-> pool[1].idle - 1, borrowed |-> pool[1].borrowed + 1])
            /\ resp' = [route |-> "get_conn", conn |-> "pooled", pool_was |-> pool]
       ELSE /\ UNCHANGED pool
            /\ resp' = [route |-> "get_conn", conn |-> "direct", pool_was |-> pool]
  /\ UNCHANGED <<users, inflight, arg, ret, cv2_face, training_images, models, session,
                 attendance, attendance_csv, debug_log, now>>

\* conn.close() of a request on a pooled connection: the connection is not
\* closed but put back into the queue of its pool.
conn_close ==
  /\ pool # None /\ pool[1].borrowed > 0
  /\ pool' = Some([idle |-> pool[1].idle + 1, borrowed |-> pool[1].borrowed - 1])
  /\ resp' = [route |-> "conn_close"]
  /\ UNCHANGED <<users, inflight, arg, ret, cv2_face, training_images, models, session,
                 attendance, attendance_csv, debug_log, now>>

\* close_pool(): "if not _POOL: return"
close_pool_enter ==
  /\ inflight.pc = "idle"
  /\ inflight' = [inflight EXCEPT !.pc = IF pool = None THEN "returned" ELSE "loop"]
  /\ UNCHANGED <<pool, users, arg, ret, cv2_face, training_images, models, session,
                 attendance, attendance_csv, debug_log, now, resp>>

\* "conn = _POOL.get_connection()" inside "while True": PoolError when the
\* queue is empty, or an error of the reconnect; either one breaks the loop.
close_pool_get ==
  /\ inflight.pc = "loop"
  /\ \E raises \in BOOLEAN :
       IF pool[1].idle = 0 \/ raises
       THEN /\ inflight' = [inflight EXCEPT !.pc = "after"]
            /\ UNCHANGED pool
       ELSE /\ inflight' = [inflight EXCEPT !.pc = "holding"]
            /\ pool' = Some([idle |-> pool[1].idle - 1, borrowed |-> pool[1].borrowed + 1])
  /\ UNCHANGED <<users, arg, ret, cv2_face, training_images, models, session,
                 attendance, attendance_csv, debug_log, now, resp>>

\* "conn.close()" on the borrowed connection, exceptions swallowed: close() of
\* a pooled connection hands it back to the queue, and the loop goes on.
close_pool_close ==
  /\ inflight.pc = "holding"
  /\ pool' = Some([idle |-> pool[1].idle + 1, borrowed |-> pool[1].borrowed - 1])
  /\ inflight' = [inflight EXCEPT !.pc = "loop"]
  /\ UNCHANGED <<users, arg, ret, cv2_face, training_images, models, session,
                 attendance, attendance_csv, debug_log, now, resp>>

\* "_POOL = None" after the loop, and close_pool returns.
close_pool_finish ==
  /\ inflight.pc = "after"
  /\ pool' = None
  /\ inflight' = [inflight EXCEPT !.pc = "returned"]
  /\ UNCHANGED <<users, arg, ret, cv2_face, training_images, models, session,
                 attendance, attendance_csv, debug_log, now, resp>>

close_pool ==
  \/ close_pool_enter
  \/ close_pool_get
  \/ close_pool_close
  \/ close_pool_finish

\* _init_pool() at import: the pool, or None when its construction failed.
InitPool ==
  /\ cv2_face = "api"
  /\ training_images = <<>>
  /\ models = [p \in ModelPaths |-> Absent]
  /\ session = <<>>
  /\ attendance = <<>>
  /\ attendance_csv = {}
  /\ debug_log = <<>>
  /\ now = 1
  /\ resp = [route |-> "init"]
  /\ users = Users
  /\ pool \in {None, NewPool}
  /\ arg = None
  /\ ret = None
  /\ inflight = PoolIdle

NextPool ==
  \/ get_conn
  \/ conn_close
  \/ close_pool

\* The thread that called close_pool keeps running.
SpecPool == InitPool /\ [][NextPool]_vars /\ WF_vars(close_pool)

\* C30 as stated: close_pool() terminates; with a pool initialized it borrows
\* and closes the pool's connections in finitely many steps and then sets the
\* pool to None, after which get_conn() hands out direct connections.
C30_ClosePoolTerminates ==
  /\ (inflight.pc = "loop") ~> (inflight.pc = "returned" /\ pool = None)
  /\ [](resp.route = "get_conn" /\ resp.pool_was = None => resp.conn = "direct")

====
